---- MODULE Spec2Model ----
(***************************************************************************)
(* A model of tools-2048: the 2048 game of core.rs (Game) and the two      *)
(* older variants of core_2048.rs (Game2048 on a fixed 4x4 array,          *)
(* BigGame2048 on an n x n grid, n > 4).                                   *)
(*                                                                         *)
(* A board is a sequence of rows, a row a sequence of cells; the code's    *)
(* 0-based index i is position i + 1 here.  Directions are the indices of  *)
(* GameMove::index: Left 0, Right 1, Up 2, Down 3.                         *)
(***************************************************************************)
EXTENDS Integers, Sequences, FiniteSets, TLC

VARIABLES
    kind,        \* which struct the instance is: "None" before construction
    board,       \* Game.board / Game2048.board / BigGame2048.board
    score,       \* .score
    score_next,  \* Game.score_next; the .1 of moves_values in core_2048
    moves,       \* .moves: the legality flag of each direction
    moves_next,  \* Game.moves_next; the .0 of moves_values in core_2048
    state,       \* Game.state
    result,      \* Game.result
    won,         \* Game2048.won / BigGame2048.won
    ret,         \* what the last call returned
    nmoves,      \* number of successful make_move calls so far
    budget,      \* number of successful make_move calls explored on this instance
    search,      \* find_best_move: "Idle" before the call, "Running", "Done"
    depth,       \* find_best_move: the argument depth
    pool,        \* thread_pool.size() / num_of_threads
    depth_per_thread,
    queue,       \* the tasks not yet taken by a worker (Game); the directions
                 \* whose threads are not yet spawned (core_2048)
    workers,     \* per worker thread: busy, move_ind, rollouts left, thread_score
    moves_values, \* the total of each direction
    scheduled,   \* number of tasks given to the pool / threads spawned
    rollouts     \* number of rollouts started

searchVars == <<search, depth, pool, depth_per_thread, queue, workers, moves_values, scheduled,
                rollouts>>

vars == <<kind, board, score, score_next, moves, moves_next, state, result, won, ret, nmoves,
          budget, searchVars>>

gameVars == <<board, score, score_next, moves, moves_next, state, result, won>>

(***************************************************************************)
(* Bounds of the exploration.                                              *)
(***************************************************************************)
\* successful moves explored on an instance built on a crowded board
MaxMoves == 2
\* a board with at most this many empty cells is crowded
MaxEmpty == 3
\* the free line of an input board of SpecUpdate holds 0 or 2^1 .. 2^MaxExp
MaxExp == 3
\* find_best_move is called with depth 0 .. MaxDepth
MaxDepth == 4
\* and runs on 1 .. MaxThreads worker threads
MaxThreads == 2
\* what a playout adds to the score after its first move is cut at 4 * MaxPlay
MaxPlay == 2
\* a rollout followed move by move is cut after MaxRollout moves
MaxRollout == 3
\* the play loop is followed for MaxLoop accepted moves
MaxLoop == 2
\* a rollout followed to its end is cut after MaxEnd moves
MaxEnd == 12
\* under SpecWide the top WideBits bits of a 64-bit cell are followed: a cell
\* counts units of 2^(64 - WideBits), and the type holds the values below
\* 2^WideBits units
WideBits == 16

(***************************************************************************)
(* Program constants.                                                      *)
(***************************************************************************)
Left == 0
Right == 1
Up == 2
Down == 3
Dirs == {Left, Right, Up, Down}

\* the smallest board side Game accepts
MinSize == 4
\* the side of Game2048's array
Size2048 == 4
\* the smallest board side BigGame2048 accepts (assert!(n > 4))
MinBigSize == 5
\* a cell at or above this value is a victory
VictoryTile == 2048

(***************************************************************************)
(* Sequences and boards.                                                   *)
(***************************************************************************)
Reverse(s) == [k \in 1..Len(s) |-> s[Len(s) + 1 - k]] \o <<>>

\* row.iter().filter(|&&x| x != 0)
NonZero(s) == SelectSeq(s, LAMBDA x : x # 0)

Zeros(n) == [k \in 1..n |-> 0] \o <<>>

\* vec![vec![0; size]; size]
ZeroBoard(n) == [i \in 1..n |-> Zeros(n)] \o <<>>

\* self.board.iter().map(|row| row[col])
Column(b, c) == [i \in 1..Len(b) |-> b[i][c]] \o <<>>

\* the cells of a board that hold 0, as <<row, column>> pairs
EmptyCells(b) == {p \in (1..Len(b)) \X (1..Len(b)) : b[p[1]][p[2]] = 0}

\* successful moves explored on an instance built on board b: every move on
\* a board that is not crowded offers dozens of spawns, and gets half the depth
Budget(b) == IF Cardinality(EmptyCells(b)) <= MaxEmpty THEN MaxMoves ELSE MaxMoves \div 2

(***************************************************************************)
(* Game::update (core.rs).  The code writes the transformed lines into     *)
(* the moves_next boards in place, so every scan takes the line as it was  *)
(* left by the previous update ("out") and overwrites it.                  *)
(***************************************************************************)
\* the forward scan had "merge = false" been left out after a merge: the tile
\* a merge produces merges again with an equal tile behind it
RECURSIVE ScanForwardRemerging(_, _, _, _, _)
ScanForwardRemerging(elems, out, j, merge, sc) ==
    IF elems = <<>> THEN [out |-> out, j |-> j, sc |-> sc]
    ELSE IF merge /\ Head(elems) = out[j]
         THEN ScanForwardRemerging(Tail(elems), [out EXCEPT ![j] = out[j] * 2], j, TRUE,
                                   sc + out[j] * 2)
         ELSE ScanForwardRemerging(Tail(elems), [out EXCEPT ![j + 1] = Head(elems)], j + 1,
                                   TRUE, sc)

\* the loop body of "update left" / "update up": j counts the cells written
RECURSIVE ScanForward(_, _, _, _, _)
ScanForward(elems, out, j, merge, sc) ==
    IF elems = <<>> THEN [out |-> out, j |-> j, sc |-> sc]
    ELSE IF merge /\ Head(elems) = out[j]
         THEN ScanForward(Tail(elems), [out EXCEPT ![j] = out[j] * 2], j, FALSE,
                          sc + out[j] * 2)
         ELSE ScanForward(Tail(elems), [out EXCEPT ![j + 1] = Head(elems)], j + 1, TRUE, sc)

\* the forward scan had the cells behind the tiles been left as they were
FillForwardKeeping(r) == [out |-> r.out, sc |-> r.sc]

\* "for empty_elem in ....iter_mut().skip(j)": the cells from j on are set to 0
FillForward(r) == [out |-> SubSeq(r.out, 1, r.j) \o Zeros(Len(r.out) - r.j), sc |-> r.sc]

\* one row of "update left", one column of "update up"
LineForward(line, old) == FillForward(ScanForward(NonZero(line), old, 0, FALSE, 0))

\* the backward scan had the merge left the cell as it is instead of doubling it
RECURSIVE ScanBackwardUndoubled(_, _, _, _, _)
ScanBackwardUndoubled(elems, out, j, merge, sc) ==
    IF elems = <<>> THEN [out |-> out, j |-> j, sc |-> sc, negative_index |-> FALSE]
    ELSE IF merge /\ Head(elems) = out[j + 2]
         THEN ScanBackwardUndoubled(Tail(elems), out, j, FALSE, sc + out[j + 2] * 2)
         ELSE IF j = 0
              THEN [out |-> [out EXCEPT ![j + 1] = Head(elems)], j |-> j, sc |-> sc,
                    negative_index |-> TRUE]
              ELSE ScanBackwardUndoubled(Tail(elems), [out EXCEPT ![j + 1] = Head(elems)],
                                         j - 1, TRUE, sc)

\* the loop body of "update right" / "update down": j is the code's 0-based
\* index of the next cell to write; the loop breaks when j would go below 0
RECURSIVE ScanBackward(_, _, _, _, _)
ScanBackward(elems, out, j, merge, sc) ==
    IF elems = <<>> THEN [out |-> out, j |-> j, sc |-> sc, negative_index |-> FALSE]
    ELSE IF merge /\ Head(elems) = out[j + 2]
         THEN ScanBackward(Tail(elems), [out EXCEPT ![j + 2] = out[j + 2] * 2], j, FALSE,
                           sc + out[j + 2] * 2)
         ELSE IF j = 0
              THEN [out |-> [out EXCEPT ![j + 1] = Head(elems)], j |-> j, sc |-> sc,
                    negative_index |-> TRUE]
              ELSE ScanBackward(Tail(elems), [out EXCEPT ![j + 1] = Head(elems)], j - 1,
                                TRUE, sc)

\* "if !negative_index { for empty_elem in ....iter_mut().rev().skip(len - 1 - j) }":
\* unless the loop broke, the cells from j down to 0 are set to 0
FillBackward(r) ==
    [out |-> IF r.negative_index THEN r.out
             ELSE Zeros(r.j + 1) \o SubSeq(r.out, r.j + 2, Len(r.out)),
     sc |-> r.sc]

\* "update right" had the tiles been taken without .rev(): the tile farthest
\* from the target edge is written first
LineBackwardInOrder(line, old) ==
    FillBackward(ScanBackward(NonZero(line), old, Len(line) - 1, FALSE, 0))

\* one row of "update right", one column of "update down"
LineBackward(line, old) ==
    FillBackward(ScanBackward(Reverse(NonZero(line)), old, Len(line) - 1, FALSE, 0))

\* the lines of board b in the order the loops of a direction take them, with
\* the lines of moves_next they overwrite: rows for left and right, columns
\* for up and down
LineOf(b, vertical, i) == IF vertical THEN Column(b, i) ELSE b[i]

\* "for (i, row) in self.board.iter().enumerate()" / "for col in 0..len": the
\* result of every line, in order
RECURSIVE Lines(_, _, _, _, _, _)
Lines(b, old, vertical, forward, i, acc) ==
    IF i > Len(b) THEN acc
    ELSE Lines(b, old, vertical, forward, i + 1,
               Append(acc, IF forward
                           THEN LineForward(LineOf(b, vertical, i), LineOf(old, vertical, i))
                           ELSE LineBackward(LineOf(b, vertical, i), LineOf(old, vertical, i))))

RECURSIVE SumScores(_)
SumScores(rs) == IF rs = <<>> THEN 0 ELSE Head(rs).sc + SumScores(Tail(rs))

\* the lines of up and down had they been written into the rows of moves_next
WrittenByRows(rs, vertical) ==
    [next |-> [i \in 1..Len(rs) |-> rs[i].out] \o <<>>, sc |-> SumScores(rs)]

\* moves_next[d] and score_next[d] once every line is written
Written(rs, vertical) ==
    [next |-> IF vertical
              THEN [i \in 1..Len(rs) |-> [c \in 1..Len(rs) |-> rs[c].out[i]] \o <<>>] \o <<>>
              ELSE [i \in 1..Len(rs) |-> rs[i].out] \o <<>>,
     sc   |-> SumScores(rs)]

\* "update left": the board after the move and the score it adds
UpdateLeft(b, old) == Written(Lines(b, old, FALSE, TRUE, 1, <<>>), FALSE)

\* "update right"
UpdateRight(b, old) == Written(Lines(b, old, FALSE, FALSE, 1, <<>>), FALSE)

\* "update up"
UpdateUp(b, old) == Written(Lines(b, old, TRUE, TRUE, 1, <<>>), TRUE)

\* "update down"
UpdateDown(b, old) == Written(Lines(b, old, TRUE, FALSE, 1, <<>>), TRUE)

\* self.board.iter().flat_map(|row| row.iter()).any(|&x| x >= 2048)
HasVictoryTile(b) == \E i \in 1..Len(b) : \E j \in 1..Len(b[i]) : b[i][j] >= VictoryTile

\* "update state" had it asked for any blocked direction instead of all
UpdateStateAnyBlocked(mv, st) == IF \E d \in Dirs : ~mv[d] THEN "GameOver" ELSE st

\* "update state"
UpdateState(mv, st) == IF \A d \in Dirs : ~mv[d] THEN "GameOver" ELSE st

\* "update result" had the loss never been recorded
UpdateResultVictoryOnly(b, st, res) ==
    IF res = "Pending" /\ HasVictoryTile(b) THEN "Victory" ELSE res

\* "update result" had it been recomputed on every update, the loss first
UpdateResultLossFirst(b, st, res) ==
    IF st = "GameOver" THEN "Loss"
    ELSE IF HasVictoryTile(b) THEN "Victory" ELSE "Pending"

\* "update result", st being the state just updated
UpdateResult(b, st, res) ==
    IF res = "Pending"
    THEN IF HasVictoryTile(b) THEN "Victory"
         ELSE IF st = "GameOver" THEN "Loss" ELSE "Pending"
    ELSE res

\* the flags had every direction been taken for legal
ChangedAlways(b, nx) == [d \in Dirs |-> TRUE] @@ <<>>

\* the flags had up and down never been found legal
ChangedInRows(b, nx) == [d \in Dirs |-> d \in {Left, Right} /\ b # nx[d]] @@ <<>>

\* the comparison had every direction been compared with moves_next[Left]
ChangedFromLeft(b, nx) == [d \in Dirs |-> b # nx[Left]] @@ <<>>

\* self.moves[d] = self.board != self.moves_next[d], for the four directions
Changed(b, nx) == [d \in Dirs |-> b # nx[d]] @@ <<>>

\* update() had a victory tile ended the game
UpdatedVictoryEnds(b, t, st, res) ==
    [score_next |-> [d \in Dirs |-> t[d].sc] @@ <<>>,
     moves_next |-> [d \in Dirs |-> t[d].next] @@ <<>>,
     moves      |-> Changed(b, [d \in Dirs |-> t[d].next]),
     state      |-> IF HasVictoryTile(b) THEN "GameOver"
                    ELSE UpdateState(Changed(b, [d \in Dirs |-> t[d].next]), st),
     result     |-> UpdateResult(b, UpdateState(Changed(b, [d \in Dirs |-> t[d].next]), st),
                                 res)]

\* the fields of the struct once the four transitions t are written
Updated(b, t, st, res) ==
    [score_next |-> [d \in Dirs |-> t[d].sc] @@ <<>>,
     moves_next |-> [d \in Dirs |-> t[d].next] @@ <<>>,
     moves      |-> Changed(b, [d \in Dirs |-> t[d].next]),
     state      |-> UpdateState(Changed(b, [d \in Dirs |-> t[d].next]), st),
     result     |-> UpdateResult(b, UpdateState(Changed(b, [d \in Dirs |-> t[d].next]), st),
                                 res)]

\* Game::update: the fields it writes, from the board and the old fields
Update(b, oldNext, st, res) ==
    Updated(b, (Left :> UpdateLeft(b, oldNext[Left])) @@ (Right :> UpdateRight(b, oldNext[Right]))
                 @@ (Up :> UpdateUp(b, oldNext[Up])) @@ (Down :> UpdateDown(b, oldNext[Down])),
            st, res)

(***************************************************************************)
(* Game::new, Game::from_existing, Game::new_tile, Game::make_move.        *)
(***************************************************************************)
\* the board with cell p set to v: what new_tile does once rng has chosen
WithTile(b, p, v) == [b EXCEPT ![p[1]][p[2]] = v]

\* new_tile had it written nothing
SpawnedNothing == {0}

\* the values new_tile writes: 2 (rng < 0.9) or 4
SpawnValues == {2, 4}

RECURSIVE ILog2(_)
ILog2(x) == IF x < 2 THEN 0 ELSE 1 + ILog2(x \div 2)

RECURSIVE Pow2(_)
Pow2(k) == IF k = 0 THEN 1 ELSE 2 * Pow2(k - 1)

\* the match had the arm "2.." accepted every value
InvalidCellOnlyOne(cell) == cell = 1

\* the match of from_existing on one cell: is the cell rejected
InvalidCell(cell) ==
    CASE cell = 0 -> FALSE
      [] cell = 1 -> TRUE
      [] OTHER    -> Pow2(ILog2(cell)) # cell

\* the checks had the values been looked at before the shape
FromExistingCheckValuesFirst(grid) ==
    IF Len(grid) < MinSize THEN "InvalidSize"
    ELSE IF \E i \in 1..Len(grid) : \E j \in 1..Len(grid[i]) : InvalidCell(grid[i][j])
         THEN "InvalidValue"
    ELSE IF \E i \in 1..Len(grid) : Len(grid[i]) # Len(grid) THEN "InvalidBoard"
    ELSE "Ok"

\* the checks of Game::from_existing, in the code's order
FromExistingCheck(grid) ==
    IF Len(grid) < MinSize THEN "InvalidSize"
    ELSE IF \E i \in 1..Len(grid) : Len(grid[i]) # Len(grid) THEN "InvalidBoard"
    ELSE IF \E i \in 1..Len(grid) : \E j \in 1..Len(grid[i]) : InvalidCell(grid[i][j])
         THEN "InvalidValue"
    ELSE "Ok"

\* from_existing had object.update() been left out: the fields of the fresh struct
BuiltNotUpdated(b) ==
    [score_next |-> [d \in Dirs |-> 0],
     moves_next |-> [d \in Dirs |-> ZeroBoard(Len(b))],
     moves      |-> [d \in Dirs |-> TRUE],
     state      |-> "InProgress",
     result     |-> "Pending"]

\* the fields of a Game whose board is b, after update() on the fresh struct
Built(b) == Update(b, [d \in Dirs |-> ZeroBoard(Len(b))], "InProgress", "Pending")

\* the calling thread panics (unwrap of None, a failed assert!): the instance is gone
Panic ==
    /\ kind' = "Panicked"
    /\ ret' = "panic"
    /\ UNCHANGED <<gameVars, nmoves, budget, searchVars>>

\* the call returns r and leaves the instance as it was
Refuse(r) ==
    /\ ret' = r
    /\ UNCHANGED <<kind, gameVars, nmoves, budget, searchVars>>

\* the struct Game with board b, score sc and the fields u written by update()
SetGame(b, sc, u) ==
    /\ board' = b
    /\ score' = sc
    /\ score_next' = u.score_next
    /\ moves' = u.moves
    /\ moves_next' = u.moves_next
    /\ state' = u.state
    /\ result' = u.result
    /\ UNCHANGED won

\* the end of Game::new and Game::from_existing
ConstructGame(b, fuel) ==
    /\ kind' = "Game"
    /\ SetGame(b, 0, Built(b))
    /\ ret' = "Ok"
    /\ nmoves' = 0
    /\ budget' = fuel
    /\ UNCHANGED searchVars

\* Game::new had object.new_tile() been left out
GameNewUnspawned(size) ==
    /\ kind = "None"
    /\ IF size < MinSize
       THEN Refuse("InvalidSize")
       ELSE ConstructGame(ZeroBoard(size), Budget(ZeroBoard(size)))

GameNew(size) ==
    /\ kind = "None"
    /\ IF size < MinSize
       THEN Refuse("InvalidSize")
       ELSE \E p \in EmptyCells(ZeroBoard(size)) : \E v \in SpawnValues :
                ConstructGame(WithTile(ZeroBoard(size), p, v), Budget(ZeroBoard(size)))

GameFromExisting(grid) ==
    /\ kind = "None"
    /\ IF FromExistingCheck(grid) # "Ok"
       THEN Refuse(FromExistingCheck(grid))
       ELSE ConstructGame(grid, Budget(grid))

\* make_move from the tile spawned on: new_tile's write, then update()
GameSpawned(b, sc) ==
    /\ SetGame(b, sc, Update(b, moves_next, state, result))
    /\ ret' = "true"
    /\ nmoves' = nmoves + 1
    /\ UNCHANGED <<kind, budget, searchVars>>

\* make_move had it not looked at self.moves[direction]
GameMakeMoveUnchecked(direction) ==
    /\ kind = "Game"
    /\ nmoves < budget
    /\ IF EmptyCells(moves_next[direction]) = {}
       THEN Panic
       ELSE \E p \in EmptyCells(moves_next[direction]) : \E v \in SpawnValues :
                GameSpawned(WithTile(moves_next[direction], p, v),
                            score + score_next[direction])

GameMakeMove(direction) ==
    /\ kind = "Game"
    /\ IF moves[direction]
       THEN /\ nmoves < budget
            /\ IF EmptyCells(moves_next[direction]) = {}
               THEN Panic
               ELSE \E p \in EmptyCells(moves_next[direction]) : \E v \in SpawnValues :
                        GameSpawned(WithTile(moves_next[direction], p, v),
                                    score + score_next[direction])
       ELSE Refuse("false")

(***************************************************************************)
(* Game::update on the 64-bit cell type.  Cells and scores are counted in  *)
(* units of 2^(64 - WideBits); the scans only compare, double and add, so  *)
(* they run on units as on values.  A doubling or an addition that leaves  *)
(* the type panics in a build with overflow checks and wraps in a build    *)
(* without them.                                                           *)
(***************************************************************************)
\* 2^64, in units
Limit == Pow2(WideBits)

\* the four transitions of a fresh struct in exact arithmetic
Exact(b) ==
    (Left :> UpdateLeft(b, ZeroBoard(Len(b)))) @@ (Right :> UpdateRight(b, ZeroBoard(Len(b))))
        @@ (Up :> UpdateUp(b, ZeroBoard(Len(b)))) @@ (Down :> UpdateDown(b, ZeroBoard(Len(b))))

\* "*= 2" or "+=" leaves the type: a doubled cell stays where it is written
\* and the delta only grows, so this shows in the exact results
Overflows(t) ==
    \E d \in Dirs :
        \/ t[d].sc >= Limit
        \/ \E i \in 1..Len(t[d].next) : \E j \in 1..Len(t[d].next) : t[d].next[i][j] >= Limit

\* the results of wrapping arithmetic: a wrapped cell is written and not read
\* again by the scan (merge = false)
Wrapped(t) ==
    [d \in Dirs |->
        [next |-> [i \in 1..Len(t[d].next) |->
                      [j \in 1..Len(t[d].next) |-> t[d].next[i][j] % Limit] \o <<>>] \o <<>>,
         sc   |-> t[d].sc % Limit]] @@ <<>>

\* Game::from_existing on a grid of units
GameFromExistingWide(grid) ==
    /\ kind = "None"
    /\ IF FromExistingCheck(grid) # "Ok"
       THEN Refuse(FromExistingCheck(grid))
       ELSE \/ /\ Overflows(Exact(grid))
               /\ Panic
            \/ /\ kind' = "Game"
               /\ SetGame(grid, 0, Updated(grid, Wrapped(Exact(grid)), "InProgress", "Pending"))
               /\ ret' = "Ok"
               /\ nmoves' = 0
               /\ budget' = 0
               /\ UNCHANGED searchVars

(***************************************************************************)
(* Game2048 and BigGame2048 (core_2048.rs).  Both run the same steps on a  *)
(* line of n cells: Game2048 with the literal 4 (0..3, (1..4).rev()),      *)
(* BigGame2048 with row.len().  Up and Down work on the transposed board.  *)
(***************************************************************************)
\* transpose: new_board[i][j] = board[j][i]
Transpose(b) == [i \in 1..Len(b) |-> [j \in 1..Len(b) |-> b[j][i]] \o <<>>] \o <<>>

\* row.swap(i, i + 1), i 0-based
SwapAt(row, i) == [row EXCEPT ![i + 1] = row[i + 2], ![i + 2] = row[i + 1]]

\* "loop { moved = false; for i in 0..n-1 { if row[i] == 0 && row[i + 1] != 0
\* { swap; moved = true } } if !moved { break } }": i = n - 1 ends one run
RECURSIVE BubbleLeft(_, _, _, _)
BubbleLeft(row, i, n, moved) ==
    IF i >= n - 1
    THEN IF moved THEN BubbleLeft(row, 0, n, FALSE) ELSE row
    ELSE IF row[i + 1] = 0 /\ row[i + 2] # 0
         THEN BubbleLeft(SwapAt(row, i), i + 1, n, TRUE)
         ELSE BubbleLeft(row, i + 1, n, moved)

\* the same with "if row[i] != 0 && row[i + 1] == 0"
RECURSIVE BubbleRight(_, _, _, _)
BubbleRight(row, i, n, moved) ==
    IF i >= n - 1
    THEN IF moved THEN BubbleRight(row, 0, n, FALSE) ELSE row
    ELSE IF row[i + 1] # 0 /\ row[i + 2] = 0
         THEN BubbleRight(SwapAt(row, i), i + 1, n, TRUE)
         ELSE BubbleRight(row, i + 1, n, moved)

\* the merge had "row[i + 1] = 0" been left out: the second tile of the pair
\* is rotated to the end of the row
MergedLeftAtKeepsTile(row, i) ==
    SubSeq(row, 1, i) \o <<row[i + 1] * 2>> \o SubSeq(row, i + 3, Len(row)) \o <<row[i + 2]>>

\* row[i] *= 2; row[i + 1] = 0; row[(i + 1)..].rotate_left(1), i 0-based
MergedLeftAt(row, i) ==
    SubSeq(row, 1, i) \o <<row[i + 1] * 2>> \o SubSeq(row, i + 3, Len(row)) \o <<0>>

\* row[i] *= 2; row[i - 1] = 0; row[..i].rotate_right(1), i 0-based
MergedRightAt(row, i) ==
    <<0>> \o SubSeq(row, 1, i - 1) \o <<row[i + 1] * 2>> \o SubSeq(row, i + 2, Len(row))

\* the merge pass had the score been taken before the tile is doubled
RECURSIVE MergeLeftScoringOperand(_, _, _, _)
MergeLeftScoringOperand(row, i, n, sc) ==
    IF i >= n - 1 THEN [row |-> row, sc |-> sc]
    ELSE IF row[i + 1] # 0 /\ row[i + 1] = row[i + 2]
         THEN MergeLeftScoringOperand(MergedLeftAt(row, i), i + 1, n, sc + row[i + 1])
         ELSE MergeLeftScoringOperand(row, i + 1, n, sc)

\* "for i in 0..n-1 { if row[i] != 0 && row[i] == row[i + 1] { ... } }"
RECURSIVE MergeLeft(_, _, _, _)
MergeLeft(row, i, n, sc) ==
    IF i >= n - 1 THEN [row |-> row, sc |-> sc]
    ELSE IF row[i + 1] # 0 /\ row[i + 1] = row[i + 2]
         THEN MergeLeft(MergedLeftAt(row, i), i + 1, n, sc + row[i + 1] * 2)
         ELSE MergeLeft(row, i + 1, n, sc)

\* the merge pass of right and down had it run from the left end of the row
MergeRightFromLeft(row, i, n, sc) ==
    [row |-> BubbleRight(MergeLeft(row, 0, n, sc).row, 0, n, FALSE),
     sc  |-> MergeLeft(row, 0, n, sc).sc]

\* "for i in (1..n).rev() { if row[i] != 0 && row[i] == row[i - 1] { ... } }"
RECURSIVE MergeRight(_, _, _, _)
MergeRight(row, i, n, sc) ==
    IF i < 1 THEN [row |-> row, sc |-> sc]
    ELSE IF row[i + 1] # 0 /\ row[i + 1] = row[i]
         THEN MergeRight(MergedRightAt(row, i), i - 1, n, sc + row[i + 1] * 2)
         ELSE MergeRight(row, i - 1, n, sc)

\* the body of "for row in &mut working_board" of left and up
RowLeft2048(row, n) == MergeLeft(BubbleLeft(row, 0, n, FALSE), 0, n, 0)

\* the body of "for row in &mut working_board" of right and down
RowRight2048(row, n) == MergeRight(BubbleRight(row, 0, n, FALSE), n - 1, n, 0)

\* "for row in &mut working_board": the result of every row, in order
RECURSIVE Rows2048(_, _, _, _, _)
Rows2048(wb, toLeft, n, i, acc) ==
    IF i > Len(wb) THEN acc
    ELSE Rows2048(wb, toLeft, n, i + 1,
                  Append(acc, IF toLeft THEN RowLeft2048(wb[i], n) ELSE RowRight2048(wb[i], n)))

RECURSIVE SumRowScores(_)
SumRowScores(rs) == IF rs = <<>> THEN 0 ELSE Head(rs).sc + SumRowScores(Tail(rs))

\* the working board once every row is done, transposed back for up and down
Worked(rs, vertical) ==
    [next |-> IF vertical
              THEN [i \in 1..Len(rs) |-> [j \in 1..Len(rs) |-> rs[j].row[i]] \o <<>>] \o <<>>
              ELSE [i \in 1..Len(rs) |-> rs[i].row] \o <<>>,
     sc   |-> SumRowScores(rs)]

\* the working board and score of one direction, before the comparison
Work2048(d, b, n) ==
    Worked(Rows2048(IF d \in {Up, Down} THEN Transpose(b) ELSE b, d \in {Left, Up}, n, 1, <<>>),
           d \in {Up, Down})

\* update_moves had the entry of moves_values been written for every direction
Entry2048Always(w, b, oldNext, oldScore) ==
    [moves |-> w.next # b, next |-> w.next, sc |-> w.sc]

\* "if working_board != self.board { moves.insert(d, true); moves_values[d] =
\* (working_board, score) } else { moves.insert(d, false) }": the entry of
\* moves_values is written only when the working board differs from the board
Entry2048(w, b, oldNext, oldScore) ==
    IF w.next # b
    THEN [moves |-> TRUE, next |-> w.next, sc |-> w.sc]
    ELSE [moves |-> FALSE, next |-> oldNext, sc |-> oldScore]

\* the maps once the four entries e are written
Mapped(e) ==
    [moves      |-> [d \in Dirs |-> e[d].moves] @@ <<>>,
     moves_next |-> [d \in Dirs |-> e[d].next] @@ <<>>,
     score_next |-> [d \in Dirs |-> e[d].sc] @@ <<>>]

\* update_moves
UpdateMoves(b, oldNext, oldScore, n) ==
    Mapped([d \in Dirs |-> Entry2048(Work2048(d, b, n), b, oldNext[d], oldScore[d])] @@ <<>>)

\* is_game_over
IsGameOver(mv) == \A d \in Dirs : ~mv[d]

\* is_game_won
IsGameWon(b) == \E i \in 1..Len(b) : \E j \in 1..Len(b[i]) : b[i][j] >= VictoryTile

\* the fields after update_moves() on the fresh struct built around board b
Built2048(b, n) ==
    UpdateMoves(b, [d \in Dirs |-> ZeroBoard(Len(b))], [d \in Dirs |-> 0], n)

\* the struct with board b, score sc and the maps u written by update_moves()
Set2048(b, sc, u) ==
    /\ board' = b
    /\ score' = sc
    /\ score_next' = u.score_next
    /\ moves' = u.moves
    /\ moves_next' = u.moves_next
    /\ UNCHANGED <<state, result>>

\* the end of new and from_existing
Construct2048(k, b, n, fuel) ==
    /\ kind' = k
    /\ Set2048(b, 0, Built2048(b, n))
    /\ won' = FALSE
    /\ ret' = "Ok"
    /\ nmoves' = 0
    /\ budget' = fuel
    /\ UNCHANGED searchVars

\* the answer had the victory been looked for before the end of the game
MoveResultVictoryFirst(mv, b, w) ==
    IF ~w /\ IsGameWon(b) THEN "Victory"
    ELSE IF IsGameOver(mv) THEN "GameOver"
    ELSE "Moved"

\* what make_move returns after a legal move
MoveResult(mv, b, w) ==
    IF IsGameOver(mv) THEN "GameOver"
    ELSE IF ~w /\ IsGameWon(b) THEN "Victory"
    ELSE "Moved"

\* make_move had "self.score += ..." been left out
Moved2048ScoreKept(b, sc, u) ==
    /\ Set2048(b, score, u)
    /\ ret' = MoveResult(u.moves, b, won)
    /\ won' = (won \/ MoveResult(u.moves, b, won) = "Victory")
    /\ nmoves' = nmoves + 1
    /\ UNCHANGED <<kind, budget, searchVars>>

\* make_move once update_moves() has written the maps u
Moved2048(b, sc, u) ==
    /\ Set2048(b, sc, u)
    /\ ret' = MoveResult(u.moves, b, won)
    /\ won' = (won \/ MoveResult(u.moves, b, won) = "Victory")
    /\ nmoves' = nmoves + 1
    /\ UNCHANGED <<kind, budget, searchVars>>

\* make_move of Game2048 (n = 4) and of BigGame2048 (n = board.len())
MakeMove2048(direction, n) ==
    IF moves[direction]
    THEN /\ nmoves < budget
         /\ IF EmptyCells(moves_next[direction]) = {}
            THEN Panic
            ELSE \E p \in EmptyCells(moves_next[direction]) : \E v \in SpawnValues :
                     Moved2048(WithTile(moves_next[direction], p, v),
                               score + score_next[direction],
                               UpdateMoves(WithTile(moves_next[direction], p, v),
                                           moves_next, score_next, n))
    ELSE Refuse("InvalidMove")

Game2048New ==
    /\ kind = "None"
    /\ \E p \in EmptyCells(ZeroBoard(Size2048)) : \E v \in SpawnValues :
           Construct2048("Game2048", WithTile(ZeroBoard(Size2048), p, v), Size2048,
                         Budget(ZeroBoard(Size2048)))

Game2048FromExisting(b) ==
    /\ kind = "None"
    /\ Construct2048("Game2048", b, Size2048, Budget(b))

Game2048MakeMove(direction) ==
    /\ kind = "Game2048"
    /\ MakeMove2048(direction, Size2048)

BigGame2048New(n) ==
    /\ kind = "None"
    /\ IF n < MinBigSize
       THEN Panic
       ELSE \E p \in EmptyCells(ZeroBoard(n)) : \E v \in SpawnValues :
                Construct2048("BigGame2048", WithTile(ZeroBoard(n), p, v), n, Budget(ZeroBoard(n)))

BigGame2048FromExisting(b) ==
    /\ kind = "None"
    /\ IF Len(b) < MinBigSize \/ \E i \in 1..Len(b) : Len(b[i]) # Len(b)
       THEN Panic
       ELSE Construct2048("BigGame2048", b, Len(b), Budget(b))

BigGame2048MakeMove(direction) ==
    /\ kind = "BigGame2048"
    /\ MakeMove2048(direction, Len(board))

(***************************************************************************)
(* find_best_move.  A rollout plays a private copy of the game with moves   *)
(* and tiles drawn at random: it is one step here, which draws the score    *)
(* the playout ends with.  The first move of a rollout is played on the     *)
(* copy as make_move plays it; what the random moves after it add to the    *)
(* score is any of PlayScores.                                              *)
(***************************************************************************)
\* GameMove::from_index; the variants of Move2048
DirName(d) ==
    CASE d = Left  -> "Left"
      [] d = Right -> "Right"
      [] d = Up    -> "Up"
      [] d = Down  -> "Down"

\* self.moves.iter().filter(|&&x| x).count()
PossibleMovesCount(mv) == Cardinality({d \in Dirs : mv[d]})

\* the legal directions in the order of their indices
LegalMoves(mv) == SelectSeq(<<Left, Right, Up, Down>>, LAMBDA d : mv[d])

\* a variant that leaves the quotient as the division truncated it
RoundedUpNever(q, dep, mt) == IF q = 0 THEN 1 ELSE q

\* "if depth_per_thread == 0 { 1 } else if depth_per_thread * m * t != depth { + 1 }"
RoundedUp(q, dep, mt) == IF q = 0 THEN 1 ELSE IF q * mt # dep THEN q + 1 ELSE q

\* depth_per_thread, m being the number of moves the code divides by
DepthPerThread(dep, m, t) == RoundedUp(dep \div (m * t), dep, m * t)

Repeat(x, n) == [k \in 1..n |-> x] \o <<>>

\* "for move_ind in legal { for _ in 0..thread_pool.size() { add_to_queue } }"
RECURSIVE TaskQueue(_, _)
TaskQueue(legal, t) ==
    IF legal = <<>> THEN <<>> ELSE Repeat(Head(legal), t) \o TaskQueue(Tail(legal), t)

\* a worker thread without a task
IdleWorker == [busy |-> FALSE, move_ind |-> Left, left |-> 0, thread_score |-> 0]

\* a worker thread at the start of a task for direction d
BusyWorker(d, n) == [busy |-> TRUE, move_ind |-> d, left |-> n, thread_score |-> 0]

\* what the rest of a playout adds to the score of a game that goes on from
\* board b: on a full board the next move merges, which scores 4 at least;
\* otherwise the playout may end without a merge; the most is what the
\* exploration lets it add
PlayScores(b) == IF EmptyCells(b) = {} THEN {4, 4 * MaxPlay} ELSE {0, 4 * MaxPlay}

\* the boards new_tile can make of board b
Spawns(b) == {WithTile(b, p, v) : p \in EmptyCells(b), v \in SpawnValues}

\* the scores a rollout of Game can end with: g the fields of work_game after
\* from_existing, d the forced first move; the playout stops after this move
\* when the state is GameOver and goes on otherwise
GameRolloutScores(g, d) ==
    (IF \E b \in Spawns(g.moves_next[d]) :
            Update(b, g.moves_next, g.state, g.result).state = "GameOver"
     THEN {g.score_next[d]} ELSE {})
    \cup
    UNION {{g.score_next[d] + e : e \in PlayScores(b)} :
              b \in {x \in Spawns(g.moves_next[d]) :
                         Update(x, g.moves_next, g.state, g.result).state # "GameOver"}}

\* a variant that plays one game copy before it returns
AnsweredAfterRollout(dep, r) ==
    /\ search' = "Done"
    /\ depth' = dep
    /\ ret' = r
    /\ rollouts' = rollouts + 1
    /\ UNCHANGED <<pool, depth_per_thread, queue, workers, moves_values, scheduled>>
    /\ UNCHANGED <<kind, gameVars, nmoves, budget>>

\* the call returns r at once: no pool, no task
Answered(dep, r) ==
    /\ search' = "Done"
    /\ depth' = dep
    /\ ret' = r
    /\ UNCHANGED <<pool, depth_per_thread, queue, workers, moves_values, scheduled, rollouts>>
    /\ UNCHANGED <<kind, gameVars, nmoves, budget>>

\* the search starts on t threads with dpt rollouts per task, q to be run
\* and n tasks scheduled so far
StartSearch(dep, t, dpt, q, n) ==
    /\ search' = "Running"
    /\ depth' = dep
    /\ pool' = t
    /\ depth_per_thread' = dpt
    /\ queue' = q
    /\ workers' = Repeat(IdleWorker, t)
    /\ moves_values' = [d \in Dirs |-> 0]
    /\ scheduled' = n
    /\ rollouts' = 0
    /\ ret' = "Searching"
    /\ UNCHANGED <<kind, gameVars, nmoves, budget>>

\* a variant that finds no move to return unless two directions are legal
GameFindBestMoveNoneUpToOne(dep, t) ==
    /\ kind = "Game"
    /\ search = "Idle"
    /\ IF PossibleMovesCount(moves) <= 1 THEN Answered(dep, "NoValidMove")
       ELSE StartSearch(dep, t, DepthPerThread(dep, PossibleMovesCount(moves), t),
                        TaskQueue(LegalMoves(moves), t), PossibleMovesCount(moves) * t)

\* Game::find_best_move up to thread_pool.join(): t is thread_pool.size()
GameFindBestMove(dep, t) ==
    /\ kind = "Game"
    /\ search = "Idle"
    /\ IF PossibleMovesCount(moves) = 0 THEN Answered(dep, "NoValidMove")
       ELSE IF PossibleMovesCount(moves) = 1
            THEN Answered(dep, DirName(Head(LegalMoves(moves))))
            ELSE StartSearch(dep, t, DepthPerThread(dep, PossibleMovesCount(moves), t),
                             TaskQueue(LegalMoves(moves), t), PossibleMovesCount(moves) * t)

\* the worker steps leave the game and the call's parameters alone
WorkerFrame == UNCHANGED <<kind, gameVars, nmoves, budget, ret, search, depth, pool,
                           depth_per_thread>>

\* a free worker of the pool takes the next task of the queue
GameWorkerTake(w) ==
    /\ kind = "Game"
    /\ search = "Running"
    /\ w \in 1..Len(workers)
    /\ ~workers[w].busy
    /\ queue # <<>>
    /\ workers' = [workers EXCEPT ![w] = BusyWorker(Head(queue), depth_per_thread)]
    /\ queue' = Tail(queue)
    /\ UNCHANGED <<moves_values, scheduled, rollouts>>
    /\ WorkerFrame

\* a variant that plays the rollout's first move on the caller's game
GameWorkerRolloutInPlace(w) ==
    /\ kind = "Game"
    /\ search = "Running"
    /\ w \in 1..Len(workers)
    /\ workers[w].busy
    /\ workers[w].left > 0
    /\ \E sc \in GameRolloutScores(Built(board), workers[w].move_ind) :
           workers' = [workers EXCEPT ![w].left = @ - 1, ![w].thread_score = @ + sc]
    /\ rollouts' = rollouts + 1
    /\ board' = moves_next[workers[w].move_ind]
    /\ score' = score + score_next[workers[w].move_ind]
    /\ UNCHANGED <<queue, moves_values, scheduled>>
    /\ UNCHANGED <<kind, score_next, moves, moves_next, state, result, won, nmoves, budget, ret,
                   search, depth, pool, depth_per_thread>>

\* one pass of "for _ in 0..depth_per_thread": a rollout, its score added to
\* thread_score
GameWorkerRollout(w) ==
    /\ kind = "Game"
    /\ search = "Running"
    /\ w \in 1..Len(workers)
    /\ workers[w].busy
    /\ workers[w].left > 0
    /\ \E sc \in GameRolloutScores(Built(board), workers[w].move_ind) :
           workers' = [workers EXCEPT ![w].left = @ - 1, ![w].thread_score = @ + sc]
    /\ rollouts' = rollouts + 1
    /\ UNCHANGED <<queue, moves_values, scheduled>>
    /\ WorkerFrame

\* a variant that stores the partial sum over what the entry holds
GameWorkerAddOverwriting(w) ==
    /\ kind = "Game"
    /\ search = "Running"
    /\ w \in 1..Len(workers)
    /\ workers[w].busy
    /\ workers[w].left = 0
    /\ moves_values' = [moves_values EXCEPT ![workers[w].move_ind] = workers[w].thread_score]
    /\ workers' = [workers EXCEPT ![w] = IdleWorker]
    /\ UNCHANGED <<queue, scheduled, rollouts>>
    /\ WorkerFrame

\* moves_values.lock().unwrap()[move_ind] += thread_score; the task ends
GameWorkerAdd(w) ==
    /\ kind = "Game"
    /\ search = "Running"
    /\ w \in 1..Len(workers)
    /\ workers[w].busy
    /\ workers[w].left = 0
    /\ moves_values' = [moves_values EXCEPT ![workers[w].move_ind] = @ + workers[w].thread_score]
    /\ workers' = [workers EXCEPT ![w] = IdleWorker]
    /\ UNCHANGED <<queue, scheduled, rollouts>>
    /\ WorkerFrame

\* iter().enumerate().max_by_key(|(_, &x)| x): the last of the largest
MaxInd(mv) == CHOOSE i \in Dirs : \A j \in Dirs : mv[j] < mv[i] \/ (mv[j] = mv[i] /\ j <= i)

\* a variant that takes the result once the queue is empty, tasks running or not
GameJoinEarly ==
    /\ kind = "Game"
    /\ search = "Running"
    /\ queue = <<>>
    /\ search' = "Done"
    /\ ret' = DirName(MaxInd(moves_values))
    /\ UNCHANGED <<kind, gameVars, nmoves, budget, depth, pool, depth_per_thread, queue,
                   workers, moves_values, scheduled, rollouts>>

\* thread_pool.join() has returned: the result is taken
GameJoin ==
    /\ kind = "Game"
    /\ search = "Running"
    /\ queue = <<>>
    /\ \A w \in 1..Len(workers) : ~workers[w].busy
    /\ search' = "Done"
    /\ ret' = DirName(MaxInd(moves_values))
    /\ UNCHANGED <<kind, gameVars, nmoves, budget, depth, pool, depth_per_thread, queue,
                   workers, moves_values, scheduled, rollouts>>

\* the line length update_moves works with: the literal 4, or board.len()
Side(k, b) == IF k = "Game2048" THEN Size2048 ELSE Len(b)

\* can make_move(d) on new_board, whose fields g from_existing has written,
\* return Err(GameOver)
FirstMoveCanEnd(g, d, n) ==
    \E b \in Spawns(g.moves_next[d]) :
        IsGameOver(UpdateMoves(b, g.moves_next, g.score_next, n).moves)

\* the boards make_move(d) on new_board can leave when it returns Ok
FirstMoveGoesOn(g, d, n) ==
    {b \in Spawns(g.moves_next[d]) :
        ~IsGameOver(UpdateMoves(b, g.moves_next, g.score_next, n).moves)}

\* Game2048::find_best_move up to the loop over self.moves: the code divides
\* by self.moves.len(), the four entries of the map; without a legal direction
\* no thread is spawned and max_by_key(..).unwrap() finds an empty map
Game2048FindBestMove(dep, t) ==
    /\ kind = "Game2048"
    /\ search = "Idle"
    /\ IF PossibleMovesCount(moves) = 0
       THEN Panic
       ELSE StartSearch(dep, t, DepthPerThread(dep, Cardinality(DOMAIN moves), t),
                        LegalMoves(moves), 0)

\* BigGame2048::find_best_move up to the loop over self.moves: the code divides
\* by possible_moves * num_of_threads, which is 0 without a legal direction
BigGame2048FindBestMove(dep, t) ==
    /\ kind = "BigGame2048"
    /\ search = "Idle"
    /\ IF PossibleMovesCount(moves) * t = 0
       THEN Panic
       ELSE StartSearch(dep, t, DepthPerThread(dep, PossibleMovesCount(moves), t),
                        LegalMoves(moves), 0)

\* one pass of "for move_ind in &self.moves" up to the joins: the threads of
\* a direction are spawned; the map is walked in an order of its own
SpawnThreads(d) ==
    /\ kind \in {"Game2048", "BigGame2048"}
    /\ search = "Running"
    /\ \E k \in 1..Len(queue) : queue[k] = d
    /\ \A w \in 1..Len(workers) : ~workers[w].busy
    /\ workers' = Repeat(BusyWorker(d, depth_per_thread), pool)
    /\ queue' = SelectSeq(queue, LAMBDA x : x # d)
    /\ scheduled' = scheduled + pool
    /\ UNCHANGED <<moves_values, rollouts>>
    /\ WorkerFrame

\* one pass of "for _ in 0..depth_per_thread" in a thread: when the first
\* move returns Err(GameOver) the for loop is left by the break, otherwise
\* the playout runs and its score is added to thread_score
Rollout2048(w, g, n) ==
    /\ rollouts' = rollouts + 1
    /\ \/ /\ FirstMoveCanEnd(g, workers[w].move_ind, n)
          /\ workers' = [workers EXCEPT ![w].left = 0]
       \/ \E b \in FirstMoveGoesOn(g, workers[w].move_ind, n) : \E e \in PlayScores(b) :
                 workers' = [workers EXCEPT
                                ![w].left = @ - 1,
                                ![w].thread_score = @ + g.score_next[workers[w].move_ind] + e]
    /\ UNCHANGED <<queue, moves_values, scheduled>>
    /\ WorkerFrame

ThreadRollout(w) ==
    /\ kind \in {"Game2048", "BigGame2048"}
    /\ search = "Running"
    /\ w \in 1..Len(workers)
    /\ workers[w].busy
    /\ workers[w].left > 0
    /\ Rollout2048(w, Built2048(board, Side(kind, board)), Side(kind, board))

\* "for thread_1 in vec_of_threads { moves_values.insert(move_type, ... +
\* thread_1.join().unwrap()) }": the threads are joined in the order spawned
ThreadJoin(w) ==
    /\ kind \in {"Game2048", "BigGame2048"}
    /\ search = "Running"
    /\ w \in 1..Len(workers)
    /\ workers[w].busy
    /\ workers[w].left = 0
    /\ \A k \in 1..(w - 1) : ~workers[k].busy
    /\ moves_values' = [moves_values EXCEPT ![workers[w].move_ind] = @ + workers[w].thread_score]
    /\ workers' = [workers EXCEPT ![w] = IdleWorker]
    /\ UNCHANGED <<queue, scheduled, rollouts>>
    /\ WorkerFrame

\* *moves_values.iter().max_by_key(|&x| x.1).unwrap().0 over the entries of
\* the map, which are those of the legal directions, in the map's order
Finish2048 ==
    /\ kind \in {"Game2048", "BigGame2048"}
    /\ search = "Running"
    /\ queue = <<>>
    /\ \A w \in 1..Len(workers) : ~workers[w].busy
    /\ search' = "Done"
    /\ \E d \in {x \in Dirs : moves[x]} :
           /\ \A j \in {x \in Dirs : moves[x]} : moves_values[j] <= moves_values[d]
           /\ ret' = DirName(d)
    /\ UNCHANGED <<kind, gameVars, nmoves, budget, depth, pool, depth_per_thread, queue,
                   workers, moves_values, scheduled, rollouts>>

(***************************************************************************)
(* One rollout of Game::find_best_move, move by move: here the game of the  *)
(* state is work_game, the rollout's own game, which from_existing has      *)
(* built from the task's copy of the caller's board.                        *)
(***************************************************************************)
\* make_move on work_game for a legal direction: the cached board and score
\* are taken, a tile is spawned, update() runs
WorkGameMakeMove(d) ==
    IF EmptyCells(moves_next[d]) = {}
    THEN /\ kind' = "Panicked"
         /\ ret' = "panic"
         /\ UNCHANGED <<gameVars, nmoves, budget>>
    ELSE \E p \in EmptyCells(moves_next[d]) : \E v \in SpawnValues :
             /\ SetGame(WithTile(moves_next[d], p, v), score + score_next[d],
                        Update(WithTile(moves_next[d], p, v), moves_next, state, result))
             /\ ret' = "true"
             /\ nmoves' = nmoves + 1
             /\ UNCHANGED <<kind, budget>>

\* work_game.make_move(move_type): tasks exist for the legal directions of a
\* board with two or more of them
RolloutStart(d) ==
    /\ kind = "Game"
    /\ search = "Idle"
    /\ nmoves = 0
    /\ PossibleMovesCount(moves) >= 2
    /\ moves[d]
    /\ WorkGameMakeMove(d)
    /\ search' = "Rollout"
    /\ workers' = <<BusyWorker(d, 1)>>
    /\ UNCHANGED <<depth, pool, depth_per_thread, queue, moves_values, scheduled, rollouts>>

\* one pass of "while let GameState::InProgress = work_game.state": a move
\* chosen among the directions whose flag is set
RolloutPlay(d) ==
    /\ kind = "Game"
    /\ search = "Rollout"
    /\ state = "InProgress"
    /\ nmoves < MaxRollout
    /\ moves[d]
    /\ WorkGameMakeMove(d)
    /\ UNCHANGED searchVars

\* the same pass in a rollout that is followed to its end
RolloutOn(d) ==
    /\ kind = "Game"
    /\ search = "Rollout"
    /\ state = "InProgress"
    /\ nmoves < MaxEnd
    /\ moves[d]
    /\ WorkGameMakeMove(d)
    /\ UNCHANGED searchVars

\* a variant that adds the score after the first move, whatever the state
RolloutScoreAtOnce ==
    /\ kind = "Game"
    /\ search = "Rollout"
    /\ workers' = [workers EXCEPT ![1].thread_score = @ + score, ![1].left = @ - 1]
    /\ rollouts' = rollouts + 1
    /\ search' = "Scored"
    /\ UNCHANGED <<kind, gameVars, nmoves, budget, ret, depth, pool, depth_per_thread, queue,
                   moves_values, scheduled>>

\* thread_score += work_game.score, the loop being left
RolloutScore ==
    /\ kind = "Game"
    /\ search = "Rollout"
    /\ state # "InProgress"
    /\ workers' = [workers EXCEPT ![1].thread_score = @ + score, ![1].left = @ - 1]
    /\ rollouts' = rollouts + 1
    /\ search' = "Scored"
    /\ UNCHANGED <<kind, gameVars, nmoves, budget, ret, depth, pool, depth_per_thread, queue,
                   moves_values, scheduled>>

(***************************************************************************)
(* The play loop of the tests game_4_ai and game_5_ai:                      *)
(*   while let Ok(best_move) = game.find_best_move(..) {                    *)
(*       game.make_move(best_move); }                                       *)
(***************************************************************************)
\* the direction find_best_move has returned
Returned(r) == CHOOSE d \in Dirs : DirName(d) = r

\* the locals of the finished call are gone
SearchDropped ==
    /\ search' = "Idle"
    /\ depth' = 0
    /\ pool' = 0
    /\ depth_per_thread' = 0
    /\ queue' = <<>>
    /\ workers' = <<>>
    /\ moves_values' = [d \in Dirs |-> 0]
    /\ scheduled' = 0
    /\ rollouts' = 0

\* the loop body: game.make_move(best_move), its answer not looked at
PlayApply ==
    /\ kind = "Game"
    /\ search = "Done"
    /\ ret # "NoValidMove"
    /\ IF moves[Returned(ret)]
       THEN /\ nmoves < MaxLoop
            /\ WorkGameMakeMove(Returned(ret))
       ELSE /\ ret' = "false"
            /\ UNCHANGED <<kind, gameVars, nmoves, budget>>
    /\ SearchDropped

\* find_best_move has returned Err: the loop is left
PlayStop ==
    /\ kind = "Game"
    /\ search = "Done"
    /\ ret = "NoValidMove"
    /\ search' = "Stopped"
    /\ UNCHANGED <<kind, gameVars, nmoves, budget, ret, depth, pool, depth_per_thread, queue,
                   workers, moves_values, scheduled, rollouts>>

(***************************************************************************)
(* A new game played to its end.  The plays followed are those in which    *)
(* no move merges (the score stays 0) and new_tile's choose() yields the   *)
(* first empty cell in row-major order; the value of the tile is free.     *)
(***************************************************************************)
\* the first item of the iterator over the empty tiles of new_tile
FirstEmpty(b) ==
    CHOOSE p \in EmptyCells(b) :
        \A q \in EmptyCells(b) : p[1] < q[1] \/ (p[1] = q[1] /\ p[2] <= q[2])

\* make_move(d) accepted, with a move that merges nothing
QuietMove(d) ==
    /\ kind = "Game"
    /\ moves[d]
    /\ score_next[d] = 0
    /\ IF EmptyCells(moves_next[d]) = {}
       THEN Panic
       ELSE \E v \in SpawnValues :
                GameSpawned(WithTile(moves_next[d], FirstEmpty(moves_next[d]), v),
                            score + score_next[d])

(***************************************************************************)
(* The inputs of the exploration.                                          *)
(***************************************************************************)
\* a full n x n board on which no direction is legal
Checker(n, a, b) == [i \in 1..n |-> [j \in 1..n |-> IF (i + j) % 2 = 0 THEN a ELSE b]]

\* the 4x4 boards given to from_existing under Spec
PlayBoards4 ==
    { \* the scenario of the spec: one pair to merge on an empty board
      << <<2, 2, 0, 0>>, <<0, 0, 0, 0>>, <<0, 0, 0, 0>>, <<0, 0, 0, 0>> >>,
      \* no legal direction, no victory tile
      Checker(4, 2, 4),
      \* no legal direction, with a victory tile
      [Checker(4, 2, 4) EXCEPT ![1][1] = 2048],
      \* one empty cell: the next spawn may end the game
      [Checker(4, 2, 4) EXCEPT ![4][4] = 0],
      \* two tiles of 1024 to merge
      << <<1024, 1024, 2, 4>>, <<4, 2, 4, 2>>, <<2, 4, 2, 4>>, <<4, 2, 4, 2>> >>,
      \* a victory tile on a board that can still be played, and that one move
      \* to the right and a 4 spawned in the corner leave without a legal direction
      << <<2048, 4, 2, 4>>, <<4, 2, 4, 2>>, <<2, 4, 2, 4>>, <<2, 4, 2, 0>> >>,
      \* several merges in one move, in rows and in columns
      << <<2, 2, 2, 2>>, <<4, 8, 4, 8>>, <<4, 2, 2, 16>>, <<8, 16, 8, 16>> >>,
      \* a full board where only merges are possible
      << <<2, 2, 4, 8>>, <<4, 8, 16, 32>>, <<2, 4, 2, 4>>, <<4, 2, 4, 2>> >> }

\* the 5x5 boards given to from_existing under Spec
PlayBoards5 ==
    { Checker(5, 2, 4),
      [Checker(5, 2, 4) EXCEPT ![5][5] = 0],
      [Checker(5, 2, 4) EXCEPT ![1][1] = 1024, ![1][2] = 1024],
      [Checker(5, 2, 4) EXCEPT ![1][1] = 2048, ![5][5] = 0, ![5][4] = 0],
      [Checker(5, 2, 4) EXCEPT ![3] = <<2, 2, 2, 2, 2>>, ![4] = <<8, 16, 8, 4, 4>>] }

\* grids Game::from_existing rejects
BadGrids ==
    { << <<2, 0, 0>>, <<0, 0, 0>>, <<0, 0, 0>> >>,
      << <<2, 0, 0, 0>>, <<0, 0, 0>>, <<0, 0, 0, 0>>, <<0, 0, 0, 0>> >>,
      << <<2, 0, 0, 0>>, <<0, 1, 0, 0>>, <<0, 0, 0, 0>>, <<0, 0, 0, 0>> >>,
      << <<2, 0, 0, 0>>, <<0, 6, 0, 0>>, <<0, 0, 0, 0>>, <<0, 0, 0, 0>> >>,
      \* too small, not square and with a 1: the size is checked first
      << <<2, 0, 0>>, <<0, 1>>, <<0, 0, 0>> >>,
      \* not square and with a 1 and a 3: the shape is checked before the values
      << <<2, 1, 0, 0>>, <<0, 0, 0, 0, 0>>, <<0, 3, 0, 0>>, <<0, 0, 0, 0>> >>,
      \* 5x5 with a value that is not a power of two
      [Checker(5, 2, 4) EXCEPT ![2][3] = 12] }

\* the values of a free line under SpecUpdate
LineValues == {0} \cup {Pow2(e) : e \in 1..MaxExp}

\* the backgrounds of SpecUpdate: empty, or full of tiles above the line's values
Backgrounds(n) == {ZeroBoard(n), Checker(n, Pow2(MaxExp + 1), Pow2(MaxExp + 2))}

\* every background with row i replaced by every line, and the transposes
\* (column i replaced)
UpdateBoards(n) ==
    LET rowwise == {[bg EXCEPT ![i] = line] :
                        bg \in Backgrounds(n), i \in 1..n, line \in [1..n -> LineValues]}
    IN  rowwise \cup {Transpose(b) : b \in rowwise}

\* a full board of 32, 16, 8 along the diagonals: no two neighbours are equal,
\* and none become equal when the first row or the last column is shifted by one
Diagonal(n) == [i \in 1..n |-> [j \in 1..n |-> Pow2(5 - ((i + j - 2) % 3))]]

\* the boards find_best_move is called on under SpecSearch: no legal
\* direction, one (Left), two (Right and Down), two (Left and Right) that
\* merge, and two (Right and Up) that both fill the board with tiles no
\* spawned tile can merge with
SearchBoards4 ==
    { Checker(4, 2, 4),
      << <<2, 2, 4, 8>>, <<4, 8, 16, 32>>, <<2, 4, 2, 4>>, <<4, 2, 4, 8>> >>,
      << <<0, 2, 4, 2>>, <<0, 4, 2, 4>>, <<0, 2, 4, 2>>, <<0, 4, 2, 4>> >>,
      [Checker(4, 2, 4) EXCEPT ![4][4] = 0],
      [Diagonal(4) EXCEPT ![1][4] = 0] }

\* the boards a rollout is followed on: those of SearchBoards4 with two legal
\* directions, and one with two empty cells
RolloutBoards ==
    {b \in SearchBoards4 : PossibleMovesCount(Built(b).moves) >= 2}
    \cup { [Checker(4, 2, 4) EXCEPT ![4][3] = 0, ![4][4] = 0] }

\* positions of a game in progress the play loop is followed from: one move
\* from the end, merges left to make, nothing left to do, and a position
\* whose two legal moves, Left and Up, both end the game without a merge
LoopBoards ==
    { [Checker(4, 2, 4) EXCEPT ![4][4] = 0],
      << <<2, 2, 4, 8>>, <<4, 8, 16, 32>>, <<2, 4, 2, 4>>, <<4, 2, 4, 8>> >>,
      Checker(4, 2, 4),
      << <<0, 2, 4, 8>>, <<4, 64, 32, 16>>, <<2, 4, 2, 4>>, <<8, 32, 16, 2>> >> }

\* the board of side n whose cells, in row-major order and the cells of holes
\* left empty, hold 64, 128, 256, ...: no two tiles are equal, and none is
\* reached by merging the tiles spawned into as few as three cells
RECURSIVE DistinctFrom(_, _, _, _)
DistinctFrom(n, holes, k, e) ==
    IF k > n * n THEN <<>>
    ELSE IF <<((k - 1) \div n) + 1, ((k - 1) % n) + 1>> \in holes
         THEN <<0>> \o DistinctFrom(n, holes, k + 1, e)
         ELSE <<Pow2(e)>> \o DistinctFrom(n, holes, k + 1, e + 1)

Distinct(n, holes) ==
    [i \in 1..n |-> SubSeq(DistinctFrom(n, holes, 1, 6), (i - 1) * n + 1, i * n)]

\* the boards whose rollouts are followed to their end: one, two and three
\* empty cells
EndBoards ==
    { Distinct(4, {<<4, 4>>}),
      Distinct(4, {<<4, 3>>, <<4, 4>>}),
      Distinct(4, {<<1, 1>>, <<4, 4>>}),
      Distinct(4, {<<1, 4>>, <<4, 4>>}),
      Distinct(4, {<<4, 2>>, <<4, 3>>, <<4, 4>>}) }

\* boards given to from_existing on which no move is accepted: without a
\* tile, and full without equal neighbours
QuietBoards == {ZeroBoard(MinSize), Checker(MinSize, 2, 4)}

\* the values of a line under SpecWide: empty, 2^61, 2^62 and 2^63, in units
WideValues == {0} \cup {Pow2(WideBits - k) : k \in 1..3}

\* every line in every row or column of an empty board, and a grid with a
\* value that is not a power of two
WideBoards ==
    {[ZeroBoard(MinSize) EXCEPT ![i] = line] :
         i \in 1..MinSize, line \in [1..MinSize -> WideValues]}
    \cup {Transpose([ZeroBoard(MinSize) EXCEPT ![i] = line]) :
              i \in 1..MinSize, line \in [1..MinSize -> WideValues]}
    \cup {[ZeroBoard(MinSize) EXCEPT ![1][1] = 3 * Pow2(WideBits - 2)]}

\* a board with three legal directions, for the threads of Game2048
ThreeMoves == << <<2, 2, 4, 8>>, <<4, 8, 16, 32>>, <<2, 4, 2, 4>>, <<4, 2, 4, 0>> >>

SearchBoards5 ==
    { Checker(5, 2, 4),
      [Checker(5, 2, 4) EXCEPT ![5][5] = 0],
      [Diagonal(5) EXCEPT ![1][5] = 0] }

\* no rollout asked for, and the two largest numbers of rollouts
Depths == {0, MaxDepth - 1, MaxDepth}

Threads == 1..MaxThreads

(***************************************************************************)
(* The state machines.                                                     *)
(***************************************************************************)
Init ==
    /\ kind = "None"
    /\ board = <<>>
    /\ score = 0
    /\ score_next = [d \in Dirs |-> 0]
    /\ moves = [d \in Dirs |-> FALSE]
    /\ moves_next = [d \in Dirs |-> <<>>]
    /\ state = "None"
    /\ result = "None"
    /\ won = FALSE
    /\ ret = "None"
    /\ nmoves = 0
    /\ budget = 0
    /\ search = "Idle"
    /\ depth = 0
    /\ pool = 0
    /\ depth_per_thread = 0
    /\ queue = <<>>
    /\ workers = <<>>
    /\ moves_values = [d \in Dirs |-> 0]
    /\ scheduled = 0
    /\ rollouts = 0

\* the constructors, each on every input of a set
NewGames(sizes) == kind = "None" /\ \E size \in sizes : GameNew(size)

GivenGames(grids) == kind = "None" /\ \E grid \in grids : GameFromExisting(grid)

Given2048(boards) == kind = "None" /\ \E b \in boards : Game2048FromExisting(b)

NewBig(sizes) == kind = "None" /\ \E n \in sizes : BigGame2048New(n)

GivenBig(boards) == kind = "None" /\ \E b \in boards : BigGame2048FromExisting(b)

\* construction, then play
Next ==
    \/ NewGames({MinSize - 1, MinSize, MinSize + 1})
    \/ GivenGames(PlayBoards4 \cup PlayBoards5 \cup BadGrids)
    \/ \E d \in Dirs : GameMakeMove(d)
    \/ Game2048New
    \/ Given2048(PlayBoards4)
    \/ \E d \in Dirs : Game2048MakeMove(d)
    \/ NewBig({MinBigSize - 1, MinBigSize})
    \/ GivenBig(PlayBoards4 \cup PlayBoards5)
    \/ \E d \in Dirs : BigGame2048MakeMove(d)

Spec == Init /\ [][Next]_vars

\* the transitions of every board of the family, in each of the three structs
NextUpdate ==
    \/ GivenGames(UpdateBoards(MinSize) \cup UpdateBoards(MinBigSize))
    \/ Given2048(UpdateBoards(Size2048))
    \/ GivenBig(UpdateBoards(MinBigSize))

SpecUpdate == Init /\ [][NextUpdate]_vars

\* construction from a board, then one call of find_best_move
NextSearch ==
    \/ GivenGames(SearchBoards4)
    \/ Given2048(SearchBoards4 \cup {ThreeMoves})
    \/ GivenBig(SearchBoards5)
    \/ \E dep \in Depths : \E t \in Threads : GameFindBestMove(dep, t)
    \/ \E w \in Threads : GameWorkerTake(w)
    \/ \E w \in Threads : GameWorkerRollout(w)
    \/ \E w \in Threads : GameWorkerAdd(w)
    \/ GameJoin
    \/ \E dep \in Depths : \E t \in Threads : Game2048FindBestMove(dep, t)
    \/ \E dep \in Depths : \E t \in Threads : BigGame2048FindBestMove(dep, t)
    \/ \E d \in Dirs : SpawnThreads(d)
    \/ \E w \in Threads : ThreadRollout(w)
    \/ \E w \in Threads : ThreadJoin(w)
    \/ Finish2048

SpecSearch == Init /\ [][NextSearch]_vars

\* from_existing on the task's copy of the board, then one rollout
NextRollout ==
    \/ GivenGames(RolloutBoards)
    \/ \E d \in Dirs : RolloutStart(d)
    \/ \E d \in Dirs : RolloutPlay(d)
    \/ RolloutScore

SpecRollout == Init /\ [][NextRollout]_vars

\* the play loop on a pool of one thread
NextPlay ==
    \/ GivenGames(LoopBoards)
    \/ GameFindBestMove(MaxDepth, 1)
    \/ GameWorkerTake(1)
    \/ GameWorkerRollout(1)
    \/ GameWorkerAdd(1)
    \/ GameJoin
    \/ PlayApply
    \/ PlayStop

\* the loop runs on: a step that can be taken is taken
SpecPlay == Init /\ [][NextPlay]_vars

\* from_existing on boards of large tiles
NextWide == kind = "None" /\ \E grid \in WideBoards : GameFromExistingWide(grid)

SpecWide == Init /\ [][NextWide]_vars

\* from_existing on the task's copy of the board, then one rollout to its end
NextEnd ==
    \/ GivenGames(EndBoards)
    \/ \E d \in Dirs : RolloutStart(d)
    \/ \E d \in Dirs : RolloutOn(d)
    \/ RolloutScore

SpecEnd == Init /\ [][NextEnd]_vars

\* Game::new(4) or from_existing on a board without a legal direction, then
\* accepted moves that merge nothing
NextQuiet ==
    \/ NewGames({MinSize})
    \/ GivenGames(QuietBoards)
    \/ \E d \in Dirs : QuietMove(d)

SpecQuiet == Init /\ [][NextQuiet]_vars

(***************************************************************************)
(* The rules of the game, stated on their own: the transform of a board    *)
(* in a direction, the value and the number of its merges.                 *)
(***************************************************************************)
Games == {"Game", "Game2048", "BigGame2048"}

\* the tiles of a line read from the target edge, paired from that edge: two
\* equal neighbours become one tile of twice the value, which pairs no more
RECURSIVE Paired(_)
Paired(s) ==
    IF Len(s) < 2 THEN s
    ELSE IF s[1] = s[2] THEN <<2 * s[1]>> \o Paired(SubSeq(s, 3, Len(s)))
         ELSE <<s[1]>> \o Paired(Tail(s))

\* the sum of the values of the tiles the pairing produces
RECURSIVE PairedValue(_)
PairedValue(s) ==
    IF Len(s) < 2 THEN 0
    ELSE IF s[1] = s[2] THEN 2 * s[1] + PairedValue(SubSeq(s, 3, Len(s)))
         ELSE PairedValue(Tail(s))

\* the number of pairs
RECURSIVE PairedCount(_)
PairedCount(s) ==
    IF Len(s) < 2 THEN 0
    ELSE IF s[1] = s[2] THEN 1 + PairedCount(SubSeq(s, 3, Len(s)))
         ELSE PairedCount(Tail(s))

Padded(s, n) == s \o Zeros(n - Len(s))

RECURSIVE SumSeq(_)
SumSeq(s) == IF s = <<>> THEN 0 ELSE Head(s) + SumSeq(Tail(s))

MirrorRows(b) == [i \in 1..Len(b) |-> Reverse(b[i])] \o <<>>

\* the lines of direction d as rows that start at the target edge
TowardHead(b, d) ==
    CASE d = Left  -> b
      [] d = Right -> MirrorRows(b)
      [] d = Up    -> Transpose(b)
      [] d = Down  -> MirrorRows(Transpose(b))

\* the board whose lines of direction d, read from the target edge, are the rows o
FromHead(o, d) ==
    CASE d = Left  -> o
      [] d = Right -> MirrorRows(o)
      [] d = Up    -> Transpose(o)
      [] d = Down  -> Transpose(MirrorRows(o))

SlideRows(o) == [i \in 1..Len(o) |-> Padded(Paired(NonZero(o[i])), Len(o[i]))] \o <<>>

\* the board after a move in direction d
Transform(b, d) == FromHead(SlideRows(TowardHead(b, d)), d)

RowsPairedValue(o) == SumSeq([i \in 1..Len(o) |-> PairedValue(NonZero(o[i]))])

RowsPairedCount(o) == SumSeq([i \in 1..Len(o) |-> PairedCount(NonZero(o[i]))])

\* the sum of the values of the tiles the merges of the move produce
MergeValue(b, d) == RowsPairedValue(TowardHead(b, d))

\* the number of merges of the move
MergeCount(b, d) == RowsPairedCount(TowardHead(b, d))

\* the sum over all cells
CellSum(b) == SumSeq([i \in 1..Len(b) |-> SumSeq(b[i])])

\* the number of non-empty cells
TileCount(b) == Len(b) * Len(b) - Cardinality(EmptyCells(b))

\* a direction is legal when its transform changes the board
NoLegalDirection(b) == \A d \in Dirs : Transform(b, d) = b

(***************************************************************************)
(* Properties of the transitions (checked under SpecUpdate).               *)
(***************************************************************************)
\* C1: for every valid board and each direction, the board Game::update caches
\* for the direction is the transform: tiles compacted toward the target edge
\* in order, paired once from that edge, packed with zeros behind
C1_CachedBoardIsTransform ==
    kind = "Game" => \A d \in Dirs : moves_next[d] = Transform(board, d)

C1_Witness ==
    /\ kind = "Game"
    /\ board[1] = <<2, 0, 2, 4>>
    /\ moves_next[Left][1] = <<4, 4, 0, 0>>
    /\ moves_next[Right][1] = <<0, 0, 4, 4>>
    /\ moves[Up]

\* the cases of C2 on one line: t the tiles before the move, a the tiles after,
\* both read from the target edge
NoDoubleMerge(t, a) ==
    /\ (Len(t) = 3 /\ t[1] = t[2] /\ t[2] = t[3]) => a = <<2 * t[1], t[1]>>
    /\ (Len(t) = 4 /\ t[1] = t[2] /\ t[2] = t[3] /\ t[3] = t[4]) => a = <<2 * t[1], 2 * t[1]>>
    /\ (Len(t) = 3 /\ t[1] = 2 * t[2] /\ t[2] = t[3]) => a = <<t[1], t[1]>>
    /\ (Len(t) = 3 /\ t[1] = t[2] /\ t[3] = 2 * t[1]) => a = <<t[3], t[3]>>

LinesKeepPairs(o, r) ==
    \A i \in 1..Len(o) : NoDoubleMerge(NonZero(o[i]), NonZero(r[i]))

\* C2: in Game, Game2048 and BigGame2048 no tile takes part in two merges of
\* one move and pairs form from the target edge: v,v,v gives 2v,v; v,v,v,v
\* gives 2v,2v; 2v,v,v slid toward the 2v gives 2v,2v; and the 2v made of v,v
\* does not merge with a 2v behind it
C2_NoDoubleMerge ==
    kind \in Games =>
        \A d \in Dirs : LinesKeepPairs(TowardHead(board, d), TowardHead(moves_next[d], d))

C2_Witness ==
    /\ kind = "Game2048"
    /\ board[2] = <<4, 4, 4, 4>>
    /\ moves_next[Right][2] = <<0, 0, 8, 8>>
    /\ board[1] = <<16, 32, 16, 32>>

\* C3: the cached score delta of a direction is the sum of the values of the
\* tiles its merges produce: 0 without a merge, never negative
C3_DeltaIsMergeValue ==
    kind \in Games =>
        \A d \in Dirs : score_next[d] = MergeValue(board, d) /\ score_next[d] >= 0

C3_Witness ==
    /\ kind = "Game"
    /\ board[3] = <<2, 2, 8, 8>>
    /\ score_next[Left] = 20
    /\ score_next[Right] = 20
    /\ score_next[Up] = 0

(***************************************************************************)
(* Properties of the game in play (checked under Spec).                    *)
(***************************************************************************)
\* C4: after construction and any moves, a direction is flagged legal exactly
\* when its transform differs from the board
C4_LegalIffChanged ==
    kind \in Games => \A d \in Dirs : moves[d] <=> (Transform(board, d) # board)

C4_Witness ==
    /\ kind \in Games
    /\ nmoves >= 1
    /\ moves[Left]
    /\ ~moves[Right]

\* is the game terminal: Game.state, is_game_over() in core_2048
Terminal(k, st, mv) == IF k = "Game" THEN st = "GameOver" ELSE IsGameOver(mv)

\* C5: after construction and any moves, the game is terminal exactly when no
\* direction is legal
C5_TerminalIffNoLegal ==
    kind \in Games => (Terminal(kind, state, moves) <=> NoLegalDirection(board))

C5_Witness ==
    /\ kind = "Game"
    /\ nmoves >= 1
    /\ state = "GameOver"
    /\ NoLegalDirection(board)

\* make_move(d) of the struct at hand
MakeMove(d) == GameMakeMove(d) \/ Game2048MakeMove(d) \/ BigGame2048MakeMove(d)

\* what make_move returns for a direction that is not legal
Failure(k) == IF k = "Game" THEN "false" ELSE "InvalidMove"

\* C6: make_move with a direction that is not legal reports failure and leaves
\* board, score, legality flags, cached transitions, state, result and victory
\* flag as they are; no tile is spawned, however often the call is repeated
C6_IllegalMoveChangesNothing ==
    [][\A d \in Dirs :
           (kind \in Games /\ ~moves[d] /\ MakeMove(d))
               => (ret' = Failure(kind) /\ UNCHANGED <<kind, gameVars, nmoves>>)]_vars

C6_Witness ==
    /\ kind = "Game2048"
    /\ ret = "InvalidMove"
    /\ nmoves >= 1
    /\ ~IsGameOver(moves)

\* board b is board t with one of its empty cells set to 2 or 4
OneSpawn(t, b) == \E p \in EmptyCells(t) : \E v \in {2, 4} : b = [t EXCEPT ![p[1]][p[2]] = v]

\* C7: make_move with a legal direction d sets the board to the transform of
\* the board in direction d with one empty cell of it set to 2 or 4, and adds
\* the value of the merges to the score; the score is 0 at construction and
\* never decreases
C7_LegalMoveIsTransformAndSpawn ==
    [][/\ \A d \in Dirs :
              (kind \in Games /\ moves[d] /\ MakeMove(d))
                  => /\ OneSpawn(Transform(board, d), board')
                     /\ score' = score + MergeValue(board, d)
                     /\ kind' = kind
       /\ (kind = "None" /\ kind' \in Games) => score' = 0
       /\ (kind \in Games) => score' >= score]_vars

C7_Witness ==
    /\ kind = "Game"
    /\ nmoves = 2
    /\ ret = "true"
    /\ score >= 8

\* C8 as stated: after a successful make_move the board holds one tile more
\* than before, or it is full
C8_OneMoreTileOrFull ==
    [][\A d \in Dirs :
           (kind \in Games /\ moves[d] /\ MakeMove(d))
               => (TileCount(board') = TileCount(board) + 1 \/ EmptyCells(board') = {})]_vars

\* C8: after a successful make_move the board holds the tiles it held before,
\* less one for every merge of the move, plus the spawned tile
C8_TileCountLessMergesPlusOne ==
    [][\A d \in Dirs :
           (kind \in Games /\ moves[d] /\ MakeMove(d))
               => TileCount(board') = TileCount(board) - MergeCount(board, d) + 1]_vars

C8_Witness ==
    /\ kind = "Game"
    /\ nmoves = 1
    /\ score = 4
    /\ TileCount(board) = 2
    /\ EmptyCells(board) # {}

\* the cached board of a direction: every direction in Game, the legal ones in
\* core_2048, whose entry is written for a legal direction only
Cached(k, mv) == IF k = "Game" THEN Dirs ELSE {d \in Dirs : mv[d]}

\* C9 as stated: the transform leaves the sum over all cells as it is without
\* a merge and adds the value of the merged tile for every merge
C9_SumGrowsByMerges ==
    kind \in Games =>
        \A d \in Cached(kind, moves) :
            CellSum(moves_next[d]) = CellSum(board) + MergeValue(board, d)

\* the tile a step has put on an empty cell of board t adds its value to the sum
SpawnAdds(t, b) ==
    \E p \in EmptyCells(t) : b[p[1]][p[2]] # 0 /\ CellSum(b) = CellSum(t) + b[p[1]][p[2]]

\* C9: the transform leaves the sum over all cells as it is, with or without
\* merges (a merge puts one tile 2v where two tiles v were), and the spawn
\* that follows adds the value of the spawned tile
C9_SumKeptThenSpawnAdded ==
    /\ [](kind \in Games =>
              \A d \in Cached(kind, moves) : CellSum(moves_next[d]) = CellSum(board))
    /\ [][\A d \in Dirs :
              (kind \in Games /\ moves[d] /\ MakeMove(d)) => SpawnAdds(moves_next[d], board')]_vars

C9_Witness ==
    /\ kind = "BigGame2048"
    /\ nmoves = 1
    /\ score = 2048
    /\ \E d \in Dirs : moves[d] /\ score_next[d] > 0

\* the victory flag: result() = Victory in Game, is_game_won() in core_2048
VictoryFlag(k, res, b) == IF k = "Game" THEN res = "Victory" ELSE IsGameWon(b)

\* C10: once the victory flag is true it is true after every later make_move,
\* legal or not
C10_VictoryStays ==
    [][(kind \in Games /\ VictoryFlag(kind, result, board))
           => (kind' = kind /\ VictoryFlag(kind', result', board'))]_vars

C10_Witness ==
    /\ kind = "Game"
    /\ nmoves = 2
    /\ result = "Victory"
    /\ state = "GameOver"

\* C11: a victory tile does not end the game: with a cell >= 2048 and a legal
\* direction the state is InProgress and make_move with a legal direction
\* succeeds; the state is GameOver only when no direction is legal
C11_VictoryDoesNotEndGame ==
    /\ [](kind = "Game" =>
              /\ (HasVictoryTile(board) /\ ~NoLegalDirection(board)) => state = "InProgress"
              /\ state = "GameOver" => NoLegalDirection(board))
    /\ [][\A d \in Dirs :
              (kind = "Game" /\ HasVictoryTile(board) /\ moves[d] /\ GameMakeMove(d))
                  => (ret' = "true" /\ kind' = "Game" /\ board' # board)]_vars

C11_Witness ==
    /\ kind = "Game"
    /\ nmoves >= 1
    /\ ret = "true"
    /\ HasVictoryTile(board)
    /\ state = "InProgress"
    /\ result = "Victory"

RECURSIVE IsPowerOfTwo(_)
IsPowerOfTwo(x) == x = 2 \/ (x > 2 /\ x % 2 = 0 /\ IsPowerOfTwo(x \div 2))

\* every cell of b is 0 or a power of two >= 2
TilesOnly(b) == \A i \in 1..Len(b) : \A j \in 1..Len(b[i]) : b[i][j] = 0 \/ IsPowerOfTwo(b[i][j])

\* C12: in every state of a Game built by new or from_existing and played,
\* every cell of the board and of each cached board is 0 or a power of two >= 2
C12_CellsArePowersOfTwo ==
    kind = "Game" => TilesOnly(board) /\ \A d \in Dirs : TilesOnly(moves_next[d])

C12_Witness ==
    /\ kind = "Game"
    /\ nmoves = 2
    /\ \E i \in 1..Len(board) : \E j \in 1..Len(board) : board[i][j] = 32
    /\ \E d \in Dirs : moves_next[d] # board

\* what construction from a grid answers: too few rows, else not square, else
\* a cell that is 1 or another value that is no power of two, else success
Answer(grid) ==
    IF Len(grid) < 4 THEN "InvalidSize"
    ELSE IF \E i \in 1..Len(grid) : Len(grid[i]) # Len(grid) THEN "InvalidBoard"
    ELSE IF \E i \in 1..Len(grid) : ~TilesOnly(<<grid[i]>>) THEN "InvalidValue"
    ELSE "Ok"

\* the grids and sizes construction is called with
Grids == PlayBoards4 \cup PlayBoards5 \cup BadGrids

Sizes == {MinSize - 1, MinSize, MinSize + 1}

\* C13: Game::new(size) answers InvalidSize exactly when size < 4, and
\* Game::from_existing answers InvalidSize, InvalidBoard, InvalidValue in
\* this order of precedence, and succeeds otherwise
C13_ConstructionErrors ==
    [][/\ \A size \in Sizes :
              GameNew(size) => /\ ret' = "InvalidSize" <=> size < 4
                               /\ ret' \in {"InvalidSize", "Ok"}
                               /\ ret' = "Ok" <=> kind' = "Game"
       /\ \A grid \in Grids :
              GameFromExisting(grid) => /\ ret' = Answer(grid)
                                        /\ ret' = "Ok" <=> kind' = "Game"]_vars

C13_Witness ==
    /\ kind = "None"
    /\ ret = "InvalidBoard"

\* C14: a successful Game::from_existing(b) has board b, score 0 and legality,
\* state and result computed for b: GameOver at once without a legal
\* direction, Victory at once with a cell >= 2048
C14_FromExistingKeepsBoard ==
    [][\A grid \in Grids :
           (GameFromExisting(grid) /\ Answer(grid) = "Ok")
               => /\ board' = grid
                  /\ score' = 0
                  /\ \A d \in Dirs : moves'[d] <=> (Transform(grid, d) # grid)
                  /\ state' = (IF NoLegalDirection(grid) THEN "GameOver" ELSE "InProgress")
                  /\ HasVictoryTile(grid) => result' = "Victory"
                  /\ (~HasVictoryTile(grid) /\ NoLegalDirection(grid)) => result' = "Loss"]_vars

C14_Witness ==
    /\ kind = "Game"
    /\ nmoves = 0
    /\ board = [Checker(4, 2, 4) EXCEPT ![1][1] = 2048]
    /\ state = "GameOver"
    /\ result = "Victory"
    /\ score = 0

\* C15: for every size >= 4, Game::new(size) yields a size x size board with
\* one non-empty cell, of value 2 or 4, score 0, state InProgress, result Pending
C15_NewGameHasOneTile ==
    [][\A size \in Sizes :
           (GameNew(size) /\ size >= 4)
               => /\ Len(board') = size
                  /\ \A i \in 1..size : Len(board'[i]) = size
                  /\ TileCount(board') = 1
                  /\ \A i \in 1..size : \A j \in 1..size : board'[i][j] \in {0, 2, 4}
                  /\ score' = 0
                  /\ state' = "InProgress"
                  /\ result' = "Pending"]_vars

C15_Witness ==
    /\ kind = "Game"
    /\ nmoves = 0
    /\ Len(board) = 5
    /\ TileCount(board) = 1
    /\ board[5][5] = 4
    /\ state = "InProgress"

\* C28: new_tile is never called on a board without an empty cell: in every
\* reachable state the board cached for a legal direction, which make_move
\* adopts before the spawn, has an empty cell, and neither Game::new nor
\* any make_move of any sequence fails in the selection of the cell
C28_SpawnAlwaysHasRoom ==
    /\ [](kind \in Games =>
            \A d \in Dirs : moves[d] => EmptyCells(moves_next[d]) # {})
    /\ [][\A d \in Dirs : (kind \in Games /\ MakeMove(d)) => kind' \in Games]_vars
    /\ [][\A size \in Sizes : GameNew(size) => kind' # "Panicked"]_vars

\* a move has filled the board, and a direction is legal on the full board
C28_Witness ==
    /\ kind \in Games
    /\ nmoves >= 1
    /\ ret \in {"true", "Moved"}
    /\ EmptyCells(board) = {}
    /\ \E d \in Dirs : moves[d] /\ Cardinality(EmptyCells(moves_next[d])) = 1

\* the structs of core_2048.rs
Games2048 == {"Game2048", "BigGame2048"}

\* some cell of board b holds v or more
TileAtLeast(b, v) == \E i \in 1..Len(b) : \E j \in 1..Len(b[i]) : b[i][j] >= v

\* what the claim has a legal move answer: reached says whether Victory was
\* returned before
Answer2048(b, returned) ==
    IF NoLegalDirection(b) THEN "GameOver"
    ELSE IF TileAtLeast(b, 2048) /\ ~returned THEN "Victory"
    ELSE "Moved"

\* the answers of the legal moves follow the rule, the flag won says whether
\* Victory has been returned, and Victory is returned at most once
VictoryOnce ==
    /\ [][\A d \in Dirs :
             (kind \in Games2048 /\ moves[d] /\ MakeMove(d)) =>
                 /\ ret' = Answer2048(board', won)
                 /\ won' = (won \/ ret' = "Victory")]_vars
    /\ [][\A d \in Dirs :
             (kind \in Games2048 /\ ~moves[d] /\ MakeMove(d)) =>
                 (ret' = "InvalidMove" /\ won' = won)]_vars
    /\ []((kind \in Games2048 /\ nmoves = 0) => ~won)

\* C29 (amended): for a legal move Game2048::make_move and
\* BigGame2048::make_move return Err(GameOver) iff no direction is legal
\* after the move, Ok(Victory) iff the game is not over, some cell is >= 2048
\* and Victory was not returned before, Ok(Moved) otherwise; Ok(Victory) is
\* returned at most once, by the first legal move after which the game is not
\* over and a cell is >= 2048: that is the move which brings the first cell
\* to 2048 unless that move ends the game or the board the instance was
\* built from held such a cell already
C29_VictoryByFirstMoveLeftWon ==
    /\ VictoryOnce
    /\ []((kind \in Games2048 /\ ~won /\ nmoves >= 1) =>
            (~TileAtLeast(board, 2048) \/ NoLegalDirection(board)))
    /\ []((kind \in Games2048 /\ won) => TileAtLeast(board, 2048))

\* Victory by the move after a board built with a 2048, then Moved
C29_Witness ==
    /\ kind \in Games2048
    /\ nmoves = 2
    /\ won
    /\ ret = "Moved"
    /\ board[1][1] = 2048

\* C29 (as stated; a board given to from_existing may hold a 2048): the
\* move that returns Ok(Victory) is the move after which a cell first
\* reaches a value >= 2048
C29_VictoryByMoveReaching2048 ==
    /\ VictoryOnce
    /\ [][\A d \in Dirs :
             (kind \in Games2048 /\ MakeMove(d) /\ ret' = "Victory") =>
                 (~TileAtLeast(board, 2048) /\ TileAtLeast(board', 2048))]_vars

(***************************************************************************)
(* Properties of find_best_move (checked under SpecSearch).                *)
(***************************************************************************)
\* what find_best_move returns inside Ok
MoveNames == {DirName(d) : d \in Dirs}

\* C16: Game::find_best_move returns Err(NoValidMove) exactly when no
\* direction is legal, and Ok with a direction otherwise
C16_NoValidMoveIffNoLegal ==
    (kind = "Game" /\ search = "Done") =>
        IF NoLegalDirection(board) THEN ret = "NoValidMove" ELSE ret \in MoveNames

C16_Witness ==
    /\ kind = "Game"
    /\ search = "Done"
    /\ NoLegalDirection(board)
    /\ depth = MaxDepth
    /\ ret = "NoValidMove"

\* C17 (as stated; the code panics): Game2048::find_best_move and
\* BigGame2048::find_best_move called on a game with no legal direction
\* complete without panicking
C17_TerminalSearchNeverPanics ==
    [][\A dep \in Depths : \A t \in Threads :
          (/\ NoLegalDirection(board)
           /\ Game2048FindBestMove(dep, t) \/ BigGame2048FindBestMove(dep, t))
          => kind' # "Panicked"]_vars

\* the direction the reference transform finds legal, when there is one only
TheLegal(b) == CHOOSE d \in Dirs : Transform(b, d) # b

LegalCount(b) == Cardinality({d \in Dirs : Transform(b, d) # b})

\* C18: with exactly one legal direction Game::find_best_move returns that
\* direction at once, for every depth: no pool, no task scheduled, no game
\* copy played
C18_OneLegalMoveNoRollout ==
    (kind = "Game" /\ LegalCount(board) = 1) =>
        /\ search \in {"Idle", "Done"}
        /\ rollouts = 0
        /\ scheduled = 0
        /\ pool = 0
        /\ workers = <<>>
        /\ queue = <<>>
        /\ search = "Done" => ret = DirName(TheLegal(board))

C18_Witness ==
    /\ kind = "Game"
    /\ LegalCount(board) = 1
    /\ search = "Done"
    /\ depth = MaxDepth
    /\ ret = "Left"

\* the quotient a / b rounded up
CeilDiv(a, b) == (a + b - 1) \div b

\* at least one rollout
PerTask(dep, mt) == IF CeilDiv(dep, mt) = 0 THEN 1 ELSE CeilDiv(dep, mt)

\* how many tasks of the sequence q are for direction d
TasksFor(q, d) == Cardinality({k \in 1..Len(q) : q[k] = d})

\* C19 (amended): with M >= 2 legal directions and T workers
\* Game::find_best_move schedules T tasks for each legal direction and none
\* for the others, M*T in all; each task runs max(1, ceil(depth/(M*T)))
\* rollouts, which is ceil(depth/(M*T)) for depth >= 1 and 1 for depth = 0;
\* the call runs M*T*max(1, ceil(depth/(M*T))) rollouts in all
C19_TasksAndRolloutsAtLeastOne ==
    /\ [][\A dep \in Depths : \A t \in Threads :
             (GameFindBestMove(dep, t) /\ LegalCount(board) >= 2) =>
                 /\ scheduled' = LegalCount(board) * t
                 /\ Len(queue') = LegalCount(board) * t
                 /\ \A d \in Dirs :
                        TasksFor(queue', d) = IF Transform(board, d) # board THEN t ELSE 0]_vars
    /\ [][\A w \in Threads :
             GameWorkerTake(w) =>
                 workers'[w].left = PerTask(depth, LegalCount(board) * pool)]_vars
    /\ [][\A w \in Threads :
             GameWorkerAdd(w) => workers[w].left = 0]_vars
    /\ []((kind = "Game" /\ search = "Done" /\ LegalCount(board) >= 2) =>
            rollouts = LegalCount(board) * pool * PerTask(depth, LegalCount(board) * pool))

C19_Witness ==
    /\ kind = "Game"
    /\ search = "Done"
    /\ LegalCount(board) = 2
    /\ pool = MaxThreads
    /\ depth = 0
    /\ rollouts = 2 * MaxThreads

\* C19 (as stated; depth = 0 runs one rollout per task): the call runs
\* M*T*ceil(depth/(M*T)) rollouts in all, depth = 0 included
C19_RolloutsAreCeil ==
    (kind = "Game" /\ search = "Done" /\ LegalCount(board) >= 2) =>
        rollouts = LegalCount(board) * pool * CeilDiv(depth, LegalCount(board) * pool)

\* C20 (as stated; the code divides by the four entries of the map): for
\* depth >= 1 and at least one legal direction Game2048::find_best_move
\* runs at least depth rollouts
C20_RolloutsAtLeastDepth ==
    (kind = "Game2048" /\ search = "Done" /\ depth >= 1 /\ LegalCount(board) >= 1) =>
        rollouts >= depth

\* the directions the reference transform finds legal
LegalDirs(b) == {d \in Dirs : Transform(b, d) # b}

\* the legal directions whose total no legal direction's total exceeds
BestDirs(b, mv) == {d \in LegalDirs(b) : \A j \in LegalDirs(b) : mv[j] <= mv[d]}

\* C21 (as stated; Game returns the last largest entry of an array that holds
\* 0 for the illegal directions): with a legal direction, the direction
\* find_best_move returns is legal and its total is the largest of the
\* legal directions' totals
C21_ReturnedIsLegalMaximum ==
    (kind \in Games /\ search = "Done" /\ LegalCount(board) >= 1) =>
        \E d \in BestDirs(board, moves_values) : ret = DirName(d)

\* C22 (as stated; Game returns the last of the largest and the map of
\* Game2048 has no fixed order): among the legal directions of the largest
\* total find_best_move returns the first of Left, Right, Up, Down
C22_TieGoesToFirst ==
    (kind \in Games /\ search = "Done" /\ LegalCount(board) >= 1) =>
        \E d \in BestDirs(board, moves_values) :
            /\ ret = DirName(d)
            /\ \A j \in BestDirs(board, moves_values) : d <= j

\* the partial sums the running tasks for direction d hold
Pending(ws, d) ==
    SumSeq([w \in 1..Len(ws) |->
               IF ws[w].busy /\ ws[w].move_ind = d THEN ws[w].thread_score ELSE 0])

\* C23: under every interleaving of the tasks of Game::find_best_move a
\* task's partial sum goes into the total of its direction once and whole:
\* outside the rollouts total plus running partial sums stays what it was for
\* every direction, an addition changes the entry of its direction only, a
\* rollout changes no total, the totals of the illegal directions stay 0,
\* and when the call is done no partial sum is outstanding
C23_TotalsAreSumsOfPartialSums ==
    /\ [](kind = "Game" =>
            \A d \in Dirs \ LegalDirs(board) : moves_values[d] = 0)
    /\ [][(kind = "Game" /\ search = "Running" /\ rollouts' = rollouts) =>
             \A d \in Dirs : moves_values'[d] + Pending(workers', d)
                              = moves_values[d] + Pending(workers, d)]_vars
    /\ [][\A w \in Threads :
             GameWorkerAdd(w) =>
                 /\ \A d \in Dirs \ {workers[w].move_ind} : moves_values'[d] = moves_values[d]
                 /\ moves_values'[workers[w].move_ind]
                        = moves_values[workers[w].move_ind] + workers[w].thread_score]_vars
    /\ [][\A w \in Threads :
             GameWorkerRollout(w) => moves_values' = moves_values]_vars
    /\ []((kind = "Game" /\ search = "Done") =>
            /\ queue = <<>>
            /\ \A d \in Dirs : Pending(workers, d) = 0)

\* two tasks for Right have added 4 and 4 * MaxPlay
C23_Witness ==
    /\ kind = "Game"
    /\ search = "Done"
    /\ pool = 2
    /\ depth_per_thread = 1
    /\ moves_values[Right] = 4 + 4 * MaxPlay
    /\ moves_values[Down] > 0

\* no task is queued or running
AllTasksDone == queue = <<>> /\ \A w \in 1..Len(workers) : ~workers[w].busy

\* C24: find_best_move takes its result from the totals only when every
\* scheduled task has finished and added its partial sum: the step that
\* takes the result starts with no task queued or running and answers a
\* direction whose total is the largest then, and once the call has
\* returned no task runs and no total changes
C24_ResultAfterAllTasks ==
    /\ []((kind \in Games /\ search = "Done") => AllTasksDone)
    /\ [][(kind \in Games /\ search = "Running" /\ search' = "Done") =>
             /\ AllTasksDone
             /\ moves_values' = moves_values
             /\ \E d \in Dirs :
                    /\ ret' = DirName(d)
                    /\ \A j \in LegalDirs(board) : moves_values[j] <= moves_values[d]]_vars
    /\ [][search = "Done" =>
             (moves_values' = moves_values /\ workers' = workers /\ rollouts' = rollouts)]_vars

C24_Witness ==
    /\ kind = "Game2048"
    /\ search = "Done"
    /\ pool = MaxThreads
    /\ LegalCount(board) = 3
    /\ rollouts = 3 * MaxThreads
    /\ moves_values[Left] > 0

\* C25: Game::find_best_move leaves the caller's game as it is (board,
\* score, legality flags, cached transitions, state, result) in every step of
\* every interleaving, and each rollout starts from the caller's board with
\* score 0: what it adds to its task's partial sum is the value of the merges
\* of its first move on that board, plus what its playout scores
C25_CallerGameUnchanged ==
    /\ [][(kind = "Game" /\ (search # "Idle" \/ search' # "Idle")) =>
             UNCHANGED <<kind, board, score, score_next, moves, moves_next, state, result>>]_vars
    /\ [][\A w \in Threads :
             GameWorkerRollout(w) =>
                 /\ workers'[w].thread_score - workers[w].thread_score
                        >= MergeValue(board, workers[w].move_ind)
                 /\ workers'[w].thread_score - workers[w].thread_score
                        <= MergeValue(board, workers[w].move_ind) + 4 * MaxPlay]_vars

C25_Witness ==
    /\ kind = "Game"
    /\ search = "Running"
    /\ rollouts = 2
    /\ \E w \in 1..Len(workers) :
           /\ workers[w].busy
           /\ workers[w].move_ind = Left
           /\ MergeValue(board, Left) = 4
           /\ workers[w].thread_score = 4 + 4 * MaxPlay
    /\ score = 0
    /\ board[1] = <<2, 2, 4, 8>>

\* C27 (as stated; the code leaves the loop of rollouts by `break` without
\* adding a score): in Game2048::find_best_move and
\* BigGame2048::find_best_move every rollout of a thread, one whose first
\* move ends the game included, adds its score and leaves the thread's other
\* rollouts to run
C27_EveryRolloutRunsAndCounts ==
    [][\A w \in Threads :
          ThreadRollout(w) =>
              /\ workers'[w].left = workers[w].left - 1
              /\ workers'[w].thread_score
                     >= workers[w].thread_score + MergeValue(board, workers[w].move_ind)]_vars

(***************************************************************************)
(* Properties of one rollout (checked under SpecRollout).                  *)
(***************************************************************************)
\* the step applies direction d, legal on the board, and spawns one tile
LegalMoveApplied(d) ==
    /\ Transform(board, d) # board
    /\ OneSpawn(Transform(board, d), board')
    /\ score' = score + MergeValue(board, d)

\* C26: a rollout of Game::find_best_move starts from a fresh game on the
\* caller's board with score 0 and applies the forced direction; while the
\* game is not terminal it applies a direction that is legal then, and
\* never an illegal one; it ends when no direction is legal, at once if the
\* first move brings that about, and adds the score of that terminal game
C26_RolloutPlaysLegalMovesToTheEnd ==
    /\ [][\A d \in Dirs :
             RolloutStart(d) =>
                 (board \in RolloutBoards /\ score = 0 /\ LegalMoveApplied(d))]_vars
    /\ [][\A d \in Dirs :
             RolloutPlay(d) => (~NoLegalDirection(board) /\ LegalMoveApplied(d))]_vars
    /\ [][RolloutScore =>
             /\ NoLegalDirection(board)
             /\ workers'[1].thread_score = workers[1].thread_score + score]_vars
    /\ [](search = "Rollout" => (state = "GameOver" <=> NoLegalDirection(board)))
    /\ [](search = "Scored" => (NoLegalDirection(board) /\ workers[1].thread_score = score))

\* a rollout that went on after its first move and has ended with a score
C26_Witness ==
    /\ search = "Scored"
    /\ nmoves >= 2
    /\ score > 0
    /\ NoLegalDirection(board)
    /\ workers[1].thread_score = score

(***************************************************************************)
(* Properties of the play loop (checked under SpecPlay).                   *)
(***************************************************************************)
\* C30 (as stated; find_best_move can return a direction that is not legal):
\* the play loop applies only moves that make_move accepts, every pass of
\* its body advances the game by one move, so that the loop comes to an end
\* (a pass that leaves the game as it was is repeated for ever), and when
\* the loop stops the game is in state GameOver
C30_PlayLoopEndsInGameOver ==
    /\ [][PlayApply => (ret' = "true" /\ nmoves' = nmoves + 1 /\ board' # board)]_vars
    /\ [](search = "Stopped" => state = "GameOver")

(***************************************************************************)
(* Relations between the transitions (checked under SpecUpdate).           *)
(***************************************************************************)
\* the transition of board b toward the row edge d (Left or Right), as the
\* struct k computes it on a fresh instance
RowTransition(k, b, d) ==
    IF k = "Game"
    THEN IF d = Left THEN UpdateLeft(b, ZeroBoard(Len(b))) ELSE UpdateRight(b, ZeroBoard(Len(b)))
    ELSE Work2048(d, b, Len(b))

\* the cached transition (legal, nx, sc) of a vertical direction of board b
\* is the transpose of the row transition t of the transposed board
IsTransposeOf(t, k, b, legal, nx, sc) ==
    /\ legal <=> (t.next # Transpose(b))
    /\ (legal \/ k = "Game") => (nx = Transpose(t.next) /\ sc = t.sc)

Agree(g, mv, nx, sc) ==
    \A d \in Dirs :
        /\ g.moves[d] <=> mv[d]
        /\ mv[d] => (g.moves_next[d] = nx[d] /\ g.score_next[d] = sc[d])

\* C35: on every valid board Game agrees with Game2048 (side 4) and with
\* BigGame2048 (side 5 and more) on the legality of every direction and, for
\* every legal direction, on the board after the move and the score delta
C35_VariantsAgree ==
    /\ kind \in Games2048 => Agree(Built(board), moves, moves_next, score_next)
    /\ kind = "Game" => Agree(Built2048(board, Len(board)), moves, moves_next, score_next)

\* a 5x5 board of BigGame2048 with three equal tiles and a pair in one row
C35_Witness ==
    /\ kind = "BigGame2048"
    /\ board[2] = <<2, 2, 2, 4, 4>>
    /\ moves[Left]
    /\ moves[Right]
    /\ moves_next[Left][2] = <<4, 2, 8, 0, 0>>
    /\ moves_next[Right][2] = <<0, 0, 2, 4, 8>>
    /\ Built(board).moves_next[Right][2] = <<0, 0, 2, 4, 8>>
    /\ score_next[Right] = 12

(***************************************************************************)
(* Properties of the cache in play (checked under Spec).                   *)
(***************************************************************************)
\* C32: in every reachable state of Game, after construction and after every
\* move, for every direction, legal or not, the cached board is the transform
\* of the current board and the cached delta the value of its merges: nothing
\* written for an earlier board is left in the cache, and the delta of a
\* direction that is not legal is 0
C32_GameCacheIsOfCurrentBoard ==
    kind = "Game" =>
        \A d \in Dirs :
            /\ moves_next[d] = Transform(board, d)
            /\ score_next[d] = MergeValue(board, d)
            /\ (Transform(board, d) = board => score_next[d] = 0)

\* after a move: a direction that is not legal, one that merges, and a line
\* of the Left cache with fewer tiles than cells
C32_Witness ==
    /\ kind = "Game"
    /\ nmoves >= 1
    /\ \E d \in Dirs : ~moves[d] /\ score_next[d] = 0
    /\ \E d \in Dirs : moves[d] /\ score_next[d] > 0
    /\ \E i \in 1..Len(board) : moves_next[Left][i][Len(board)] = 0 /\ moves_next[Left][i][1] # 0

C38_StateAndResult ==
    /\ [](kind = "Game" =>
            /\ state \in {"InProgress", "GameOver"}
            /\ result \in {"Pending", "Victory", "Loss"}
            /\ state = "GameOver" => result \in {"Victory", "Loss"}
            /\ result = "Loss" => (state = "GameOver" /\ ~TileAtLeast(board, VictoryTile))
            /\ result = "Victory" <=> TileAtLeast(board, VictoryTile))
    /\ [][kind = "Game" =>
              /\ state = "GameOver" => state' = "GameOver"
              /\ result \in {"Victory", "Loss"} => result' = result]_vars

\* a game lost by a move, one empty cell before it
C38_Witness ==
    /\ kind = "Game"
    /\ nmoves >= 1
    /\ state = "GameOver"
    /\ result = "Loss"
    /\ ret = "true"

(***************************************************************************)
(* Termination of a rollout (checked under SpecEnd).                       *)
(***************************************************************************)
\* C36: every rollout terminates.  Every move of a rollout, whatever the
\* direction chosen among the legal ones and whatever the cell and value
\* spawned, makes the sum of the board larger; while the game is in progress
\* there is a legal direction to choose; and every rollout from the boards
\* explored is over before the MaxEnd moves it is followed for
C36_RolloutTerminates ==
    /\ [][\A d \in Dirs :
              (RolloutStart(d) \/ RolloutOn(d)) =>
                  (kind' = "Game" /\ CellSum(board') > CellSum(board))]_vars
    /\ []((search = "Rollout" /\ state = "InProgress") =>
              (nmoves < MaxEnd /\ \E d \in Dirs : moves[d]))
    /\ []((search = "Rollout" /\ NoLegalDirection(board)) => state = "GameOver")

\* a rollout that has ended after ten moves or more
C36_Witness ==
    /\ search = "Scored"
    /\ state = "GameOver"
    /\ nmoves >= 10
    /\ nmoves < MaxEnd

(***************************************************************************)
(* Properties of a new game played to its end (checked under SpecQuiet).   *)
(***************************************************************************)
\* the game was created with Game::new: under SpecQuiet no move is accepted
\* on a board given to from_existing, and none of these boards has one tile
FromNew == kind = "Game" /\ (nmoves >= 1 \/ TileCount(board) = 1)

\* C31 (as stated; a game can end without a single merge): a game created
\* with Game::new that make_move calls have brought to state GameOver has a
\* score different from 0
C31_GameOverScoreNotZero ==
    (FromNew /\ state = "GameOver") => score # 0

\* no two cells next to each other in a row or in a column hold the same value
NoEqualNeighbours(b) ==
    \A i \in 1..Len(b) : \A j \in 1..Len(b) :
        /\ j < Len(b) => b[i][j] # b[i][j + 1]
        /\ i < Len(b) => b[i][j] # b[i + 1][j]

\* C37 (as stated; a board without a tile has no legal direction either): the
\* game is terminal exactly when the board has no empty cell and no two
\* adjacent cells hold equal values, and a new 4x4 game is not over after
\* fewer than 15 successful moves
C37_TerminalIffFullWithoutEqualNeighbours ==
    /\ kind = "Game" =>
           (state = "GameOver" <=> (EmptyCells(board) = {} /\ NoEqualNeighbours(board)))
    /\ (FromNew /\ state = "GameOver") => nmoves >= MinSize * MinSize - 1

\* C37 (amended): the game is terminal exactly when the board holds no tile,
\* or has no empty cell and no two adjacent cells with equal values; a board
\* with a tile and an empty cell is not terminal; a new 4x4 game has at most
\* one tile more than moves made, and is not over after fewer than 15 moves
C37_TerminalIffNoTileOrFullWithoutEqualNeighbours ==
    /\ kind = "Game" =>
           (state = "GameOver" <=>
                \/ TileCount(board) = 0
                \/ (EmptyCells(board) = {} /\ NoEqualNeighbours(board)))
    /\ FromNew => TileCount(board) <= nmoves + 1
    /\ (FromNew /\ state = "GameOver") => nmoves >= MinSize * MinSize - 1

\* a new game that is over after exactly 15 moves
C37_Witness ==
    /\ FromNew
    /\ state = "GameOver"
    /\ nmoves = MinSize * MinSize - 1
    /\ EmptyCells(board) = {}
    /\ NoEqualNeighbours(board)

(***************************************************************************)
(* Properties of the arithmetic (checked under SpecWide).                  *)
(***************************************************************************)
\* C39 (as stated; doubling a tile of 2^63 leaves the 64-bit type): for every
\* board from_existing accepts and every direction the transitions are
\* computed without overflow: no fault, and the cached board, the cached
\* delta and the score after the move are the exact values
C39_TransitionsDoNotOverflow ==
    /\ kind # "Panicked"
    /\ kind = "Game" =>
           \A d \in Dirs :
               /\ moves_next[d] = Transform(board, d)
               /\ score_next[d] = MergeValue(board, d)
               /\ score + score_next[d] < Limit

====
